---- MODULE Spec2Model ----
(***************************************************************************)
(* Model of ChatStorageService (src/src/services/chatStorageService.ts,    *)
(* first class body, lines 1-1047): the session index, the staleness       *)
(* cache, the identity-to-path table, the scan pass and the operations     *)
(* that read or change them.                                               *)
(*                                                                         *)
(* JavaScript Maps are modelled as sequences of [k, v] pairs in insertion  *)
(* order.  A ChatHistory object that is shared between the cache entry of  *)
(* a path and the index is modelled by a reference to that path, so that   *)
(* an in-place update through one holder is seen through the other.        *)
(***************************************************************************)
EXTENDS Integers, Sequences, FiniteSets, TLC

----------------------------------------------------------------------------
(* Program constants *)

MAX_FILE_SIZE_MB == 50

MAX_FILE_SIZE_BYTES == MAX_FILE_SIZE_MB * 1024 * 1024

MAX_PARALLEL_READS == 10

\* the literal 30000 of the freshness test in scanAllChatHistories
FRESH_WINDOW_MS == 30000

----------------------------------------------------------------------------
(* Bounds of the model *)

\* number of changes the external writer makes to the disk
MaxFsOps == 1

\* number of clock advances
MaxTicks == 1

\* number of process restarts
MaxRestarts == 1

\* one clock advance
TickMs == FRESH_WINDOW_MS \div 2

\* Date.now() at the first construction: far from the epoch (0)
StartNow == FRESH_WINDOW_MS

----------------------------------------------------------------------------
(* The disk *)

\* sub-containers of the root, in readdirSync order
Containers == <<"w1", "w2">>

\* session files <root>/<container>/chatSessions/<base>.json, in discovery order
Paths == <<"w1/a", "w2/a">>

PathSet == {Paths[k] : k \in 1..Len(Paths)}

\* further session files of the second container, for a pass of more than
\* one batch
MorePaths == <<"w2/b0", "w2/b1", "w2/b2", "w2/b3", "w2/b4", "w2/b5", "w2/b6", "w2/b7",
               "w2/b8", "w2/b9">>

\* every session file the model knows, in discovery order
AllPaths == Paths \o MorePaths

AllPathSet == {AllPaths[k] : k \in 1..Len(AllPaths)}

ContainerSet == {Containers[k] : k \in 1..Len(Containers)}

NoPath == "-"

\* the container directory of a session file (workspaceDir of the scan loop)
ContainerOf(p) ==
    CASE p = "w1/a" -> "w1"
      [] p = "w2/a" -> "w2"
      [] p \in {MorePaths[k] : k \in 1..Len(MorePaths)} -> "w2"
      [] OTHER -> ""

\* path.basename(filePath, '.json')
Basename(p) ==
    CASE p = "w1/a" -> "a"
      [] p = "w2/a" -> "a"
      [] p = "w2/b0" -> "b0" [] p = "w2/b1" -> "b1" [] p = "w2/b2" -> "b2"
      [] p = "w2/b3" -> "b3" [] p = "w2/b4" -> "b4" [] p = "w2/b5" -> "b5"
      [] p = "w2/b6" -> "b6" [] p = "w2/b7" -> "b7" [] p = "w2/b8" -> "b8"
      [] p = "w2/b9" -> "b9"
      [] OTHER -> ""

\* embedded session identifiers; "" is an absent (falsy) sessionId
Sids == {"", "s1"}

\* request lists of a native session file: "tr" is a request with a message
\* text and a response value, "t" a request with a message text only
ReqLists == {<<"tr", "t">>}

FileSizes == {MAX_FILE_SIZE_BYTES - 1, MAX_FILE_SIZE_BYTES, MAX_FILE_SIZE_BYTES + 1}

Mtimes == {1, 2}

\* kind: "absent"  no such file
\*       "nostat"  listed by readdirSync, but statSync and open throw
\*       "bad"     cannot be read or is not JSON
\*       "other"   JSON without a non-empty requests list
\*       "native"  a session file with sessionId sid and requests reqs
Absent == [kind |-> "absent", size |-> 0, mtime |-> 0, sid |-> "", reqs |-> <<>>]

File(kind, size, mtime, sid, reqs) ==
    [kind |-> kind, size |-> size, mtime |-> mtime, sid |-> sid, reqs |-> reqs]

\* what a writer can put into a file: [kind, sid, reqs]
Contents ==
    {[kind |-> "bad", sid |-> "", reqs |-> <<>>], [kind |-> "other", sid |-> "", reqs |-> <<>>]}
    \cup {[kind |-> "native", sid |-> s, reqs |-> r] : s \in Sids, r \in ReqLists}

\* the layouts of the disk at the first start
InitFiles ==
    {Absent,
     File("native", MAX_FILE_SIZE_BYTES, 1, "s1", <<"tr", "t">>),
     File("native", MAX_FILE_SIZE_BYTES, 1, "", <<"tr", "t">>)}

----------------------------------------------------------------------------
(* JavaScript Map: a sequence of [k, v] in insertion order *)

EmptyMap == <<>>

MapKeys(m) == {m[j].k : j \in 1..Len(m)}

MapHas(m, key) == \E j \in 1..Len(m) : m[j].k = key

MapIndex(m, key) == CHOOSE j \in 1..Len(m) : m[j].k = key

MapGet(m, key) == m[MapIndex(m, key)].v

\* Map.prototype.set: replace in place, or append
MapSet(m, key, val) ==
    IF MapHas(m, key)
    THEN [m EXCEPT ![MapIndex(m, key)] = [k |-> key, v |-> val]]
    ELSE Append(m, [k |-> key, v |-> val])

\* Map.prototype.delete
MapDelete(m, key) == SelectSeq(m, LAMBDA e : e.k # key)

\* Array.from(m.values())
MapValues(m) == [j \in 1..Len(m) |-> m[j].v]

----------------------------------------------------------------------------
(* ChatHistory values *)

\* null / undefined where a ChatHistory is expected
NoChat == [id |-> "-null-", workspacePath |-> "", messageCount |-> 0, fileSize |-> 0, messages |-> <<>>]

\* a reference to a ChatHistory object: the object held by the cache entry of
\* path (path # NoPath), or an object of its own (chat)
RefTo(p) == [path |-> p, chat |-> NoChat]

Own(c) == [path |-> NoPath, chat |-> c]

VARIABLES
    root,            \* "dir" | "missing": the resolved workspaceStorage directory
    csDir,           \* container -> "dir" | "missing" | "err": its chatSessions directory
    fs,              \* path -> file, for the paths of the disk
    now,             \* Date.now()
    fsOps,           \* disk changes so far
    ticks,           \* clock advances so far
    restarts,        \* restarts so far
    persisted,       \* globalState 'chatMetaCache': [present, collection, entries]
    cachedChats,     \* Map identity -> reference to ChatHistory   (the Index)
    chatFilePaths,   \* Map identity -> path
    fileMetaCache,   \* Map path -> CachedChatMeta [id, filePath, mtime, size, chat]
    scanStats,       \* _scanStats
    lastScanTime,    \* _lastScanTime
    scanInProgress,  \* _scanInProgress
    pc,              \* position of the running scan pass: "idle" | "batch" | "await"
    filesToProcess,  \* the candidates of the latest discovery
    batchStart,      \* loop variable i of the batch loop
    pending,         \* the tasks of the batch in flight
    chats,           \* the summaries collected by the pass: paths of their cache entries
    loadPc,          \* a loadFullChat awaiting its file read: [active, id, path]
    last             \* the latest call and what it returned

vars == <<root, csDir, fs, now, fsOps, ticks, restarts, persisted, cachedChats,
          chatFilePaths, fileMetaCache, scanStats, lastScanTime, scanInProgress,
          pc, filesToProcess, batchStart, pending, chats, loadPc, last>>

envVars == <<root, csDir, fs, now, fsOps, ticks>>

memVars == <<cachedChats, chatFilePaths, fileMetaCache, scanStats, lastScanTime,
             scanInProgress, pc, filesToProcess, batchStart, pending, chats, loadPc>>

----------------------------------------------------------------------------
(* Reading the state *)

\* the ChatHistory object a reference denotes
Deref(cache, ref) == IF ref.path # NoPath THEN MapGet(cache, ref.path).chat ELSE ref.chat

\* Array.from(index.values()), the objects read through cache
AllChats(index, cache) == [j \in 1..Len(index) |-> Deref(cache, index[j].v)]

\* getAllChats(): Array.from(this.cachedChats.values())
getAllChats == AllChats(cachedChats, fileMetaCache)

\* getChatById
getChatById(id) == IF MapHas(cachedChats, id) THEN Deref(fileMetaCache, MapGet(cachedChats, id)) ELSE NoChat

ZeroStats == [foldersScanned |-> 0, chatsFound |-> 0, errors |-> 0, skippedLarge |-> 0, skippedCached |-> 0]

NoLoad == [active |-> FALSE, id |-> "", path |-> NoPath, before |-> <<>>]

\* the record of the latest call: op, its argument, how it ended, the list of
\* ChatHistory values it returned, the directories and files it touched
NoCounts == [imported |-> 0, skipped |-> 0, errors |-> 0]

Call(op, arg, outcome, ret, reads) ==
    [op |-> op, arg |-> arg, outcome |-> outcome, ret |-> ret, reads |-> reads,
     counts |-> NoCounts, tasks |-> <<>>, held |-> TRUE]

\* the record of a scan call that ended: tasks are the per-file tasks of its
\* last batch
ScanCall(arg, outcome, ret, reads, tasks) ==
    [op |-> "scan", arg |-> arg, outcome |-> outcome, ret |-> ret, reads |-> reads,
     counts |-> NoCounts, tasks |-> tasks, held |-> FALSE]

\* the record of an importChats call: its ImportResult
ImportCall(arg, success, counts, reads) ==
    [op |-> "import", arg |-> arg, outcome |-> IF success THEN "success" ELSE "failure",
     ret |-> <<>>, reads |-> reads, counts |-> counts, tasks |-> <<>>, held |-> TRUE]

\* no call result is held: the disk changed, or the caller took the result
EnvCall == [Call("env", "", "", <<>>, {}) EXCEPT !.held = FALSE]

\* calls are made one after the other: the result of a call is taken before
\* the next call is made (the result of a scan pass stays on record)
Ready == pc # "batch" /\ ~last.held

\* a completion of asynchronous file I/O (fs.promises) runs when no scan pass
\* is in flight: the pass reads with the synchronous fs calls, so its awaits
\* are settled by microtasks alone and it ends before any I/O callback runs
IoDone == Ready /\ pc = "idle"

\* the host serializes the operations a user triggers: none is started while
\* a loadFullChat awaits its file (scan requests also come from the watcher)
Serial == ~loadPc.active

\* the caller takes the result of the latest call
Return ==
    /\ last.held
    /\ last' = EnvCall
    /\ UNCHANGED <<envVars, restarts, persisted>>
    /\ UNCHANGED memVars

----------------------------------------------------------------------------
(* The external writer and the clock *)

EnvStep ==
    /\ ~last.held
    /\ fsOps < MaxFsOps
    /\ fsOps' = fsOps + 1
    /\ last' = EnvCall
    /\ UNCHANGED <<now, ticks, restarts, persisted>>
    /\ UNCHANGED memVars

FsCreate(p, c) ==
    /\ fs[p].kind = "absent"
    /\ fs' = [fs EXCEPT ![p] = File(c.kind, MAX_FILE_SIZE_BYTES, 1, c.sid, c.reqs)]
    /\ EnvStep
    /\ UNCHANGED <<root, csDir>>

FsTouch(p) ==
    /\ fs[p].kind \notin {"absent", "nostat"}
    /\ fs' = [fs EXCEPT ![p].mtime = 3 - @]
    /\ EnvStep
    /\ UNCHANGED <<root, csDir>>

FsResize(p, s) ==
    /\ fs[p].kind \notin {"absent", "nostat"}
    /\ s # fs[p].size
    /\ fs' = [fs EXCEPT ![p].size = s]
    /\ EnvStep
    /\ UNCHANGED <<root, csDir>>

\* new content under the same size and modification time
FsRewrite(p, c) ==
    /\ fs[p].kind \notin {"absent", "nostat"}
    /\ c # [kind |-> fs[p].kind, sid |-> fs[p].sid, reqs |-> fs[p].reqs]
    /\ fs' = [fs EXCEPT ![p] = File(c.kind, @.size, @.mtime, c.sid, c.reqs)]
    /\ EnvStep
    /\ UNCHANGED <<root, csDir>>

FsDelete(p) ==
    /\ fs[p].kind # "absent"
    /\ fs' = [fs EXCEPT ![p] = Absent]
    /\ EnvStep
    /\ UNCHANGED <<root, csDir>>

\* the directory entry stays, but it can no longer be stat-ed or opened
FsBreak(p) ==
    /\ fs[p].kind \notin {"absent", "nostat"}
    /\ fs' = [fs EXCEPT ![p] = [Absent EXCEPT !.kind = "nostat"]]
    /\ EnvStep
    /\ UNCHANGED <<root, csDir>>

FsSetDir(w, st) ==
    /\ st # csDir[w]
    /\ csDir' = [csDir EXCEPT ![w] = st]
    /\ EnvStep
    /\ UNCHANGED <<root, fs>>

FsSetRoot(st) ==
    /\ st # root
    /\ root' = st
    /\ EnvStep
    /\ UNCHANGED <<csDir, fs>>

Tick ==
    /\ ~last.held
    /\ ticks < MaxTicks
    /\ ticks' = ticks + 1
    /\ now' = now + TickMs
    /\ UNCHANGED <<root, csDir, fs, fsOps, restarts, persisted, last>>
    /\ UNCHANGED memVars

----------------------------------------------------------------------------
(* Discovery: the directory walk of scanAllChatHistories *)

\* the files of the disk (the domain of fs) under container w
PathsOf(w) == SelectSeq(AllPaths, LAMBDA p : p \in DOMAIN fs /\ ContainerOf(p) = w)

NoDiscovery == [threw |-> FALSE, files |-> <<>>, foldersScanned |-> 0, skippedLarge |-> 0, touched |-> {"root"}]

IsLarge(size) == size > MAX_FILE_SIZE_BYTES

\* the loop over the files of one chatSessions directory
RECURSIVE ListFiles(_, _)
ListFiles(ps, acc) ==
    IF ps = <<>> \/ acc.threw THEN acc
    ELSE LET p == Head(ps)
             f == fs[p]
             seen == [acc EXCEPT !.touched = @ \cup {p}]
         IN  IF f.kind = "absent" THEN ListFiles(Tail(ps), acc)
             ELSE IF f.kind = "nostat" THEN [seen EXCEPT !.threw = TRUE]
             ELSE IF IsLarge(f.size)
                  THEN ListFiles(Tail(ps), [seen EXCEPT !.skippedLarge = @ + 1])
                  ELSE ListFiles(Tail(ps),
                         [seen EXCEPT !.files = Append(@,
                            [filePath |-> p, workspaceId |-> ContainerOf(p),
                             stats |-> [size |-> f.size, mtime |-> f.mtime]])])

\* the loop over the sub-containers of the root
RECURSIVE Discover(_, _)
Discover(ws, acc) ==
    IF ws = <<>> \/ acc.threw THEN acc
    ELSE LET w == Head(ws)
             seen == [acc EXCEPT !.touched = @ \cup {w}]
         IN  IF csDir[w] = "missing" THEN Discover(Tail(ws), seen)
             ELSE IF csDir[w] = "err"
                  THEN [seen EXCEPT !.foldersScanned = @ + 1, !.threw = TRUE]
                  ELSE Discover(Tail(ws),
                         ListFiles(PathsOf(w), [seen EXCEPT !.foldersScanned = @ + 1]))

----------------------------------------------------------------------------
(* Metadata extraction and the per-file task *)

\* parseMetadataFast: the summary (NoChat for null) and whether the catch
\* block counted an error.  The prefix read followed by the full read returns
\* what parsing the whole file returns.
parseMetadataFast(filePath, workspaceId, fileSize) ==
    LET f == fs[filePath] IN
    IF f.kind \in {"absent", "nostat", "bad"} THEN [chat |-> NoChat, error |-> TRUE]
    ELSE IF f.kind # "native" \/ Len(f.reqs) = 0 THEN [chat |-> NoChat, error |-> FALSE]
    ELSE [chat |-> [id |-> IF f.sid # "" THEN f.sid ELSE Basename(filePath),
                    workspacePath |-> workspaceId,
                    messageCount |-> Len(f.reqs) * 2,
                    fileSize |-> fileSize,
                    messages |-> <<>>],
          error |-> FALSE]

\* a variant of IsCacheHit that compares the size alone
IsCacheHitBySize(cache, filePath, stats) ==
    /\ MapHas(cache, filePath)
    /\ MapGet(cache, filePath).size = stats.size

\* the test of processFileFast: cached && cached.mtime === stats.mtimeMs && cached.size === stats.size
IsCacheHit(cache, filePath, stats) ==
    /\ MapHas(cache, filePath)
    /\ MapGet(cache, filePath).mtime = stats.mtime
    /\ MapGet(cache, filePath).size = stats.size

\* processFileFast up to its first await: a hit is complete without a call of
\* parseMetadataFast ("hit" returns cached.chat; "throw" when the entry has no
\* chat to take the id from), a miss has run parseMetadataFast and waits to
\* store its result
processFileFast(f) ==
    IF IsCacheHit(fileMetaCache, f.filePath, f.stats)
    THEN [filePath |-> f.filePath, stats |-> f.stats,
          kind |-> IF MapGet(fileMetaCache, f.filePath).chat = NoChat THEN "throw" ELSE "hit",
          chat |-> MapGet(fileMetaCache, f.filePath).chat, error |-> FALSE]
    ELSE LET r == parseMetadataFast(f.filePath, f.workspaceId, f.stats.size)
         IN  [filePath |-> f.filePath, stats |-> f.stats, kind |-> "miss",
              chat |-> r.chat, error |-> r.error]

\* a variant of CountHit that counts a hit twice
CountHitTwice(n) == n + 2

\* this._scanStats.skippedCached++ of one hit
CountHit(n) == n + 1

\* the path-table updates of the hits of a batch, in call order
RECURSIVE HitPaths(_, _)
HitPaths(tasks, table) ==
    IF tasks = <<>> THEN table
    ELSE LET t == Head(tasks) IN
         IF t.kind = "hit"
         THEN HitPaths(Tail(tasks), MapSet(table, MapGet(fileMetaCache, t.filePath).chat.id, t.filePath))
         ELSE HitPaths(Tail(tasks), table)

RECURSIVE CountHits(_, _)
CountHits(tasks, n) ==
    IF tasks = <<>> THEN n
    ELSE CountHits(Tail(tasks), IF Head(tasks).kind \in {"hit", "throw"} THEN CountHit(n) ELSE n)

NumErrors(tasks) == Cardinality({j \in 1..Len(tasks) : tasks[j].error})

\* an index entry that shares the object of the cache entry of path keeps the
\* old object when the cache entry is replaced
Detach(index, cache, path) ==
    [j \in 1..Len(index) |->
        IF index[j].v.path = path
        THEN [k |-> index[j].k, v |-> Own(MapGet(cache, path).chat)]
        ELSE index[j]]

\* the rest of processFileFast for the misses of a batch, in call order:
\* fileMetaCache.set and chatFilePaths.set when a summary was extracted
RECURSIVE StoreMisses(_, _)
StoreMisses(tasks, st) ==
    IF tasks = <<>> THEN st
    ELSE LET t == Head(tasks) IN
         IF t.kind = "miss" /\ t.chat # NoChat
         THEN StoreMisses(Tail(tasks),
                [cache |-> MapSet(st.cache, t.filePath,
                              [id |-> t.chat.id, filePath |-> t.filePath,
                               mtime |-> t.stats.mtime, size |-> t.stats.size, chat |-> t.chat]),
                 table |-> MapSet(st.table, t.chat.id, t.filePath),
                 index |-> Detach(st.index, st.cache, t.filePath)])
         ELSE StoreMisses(Tail(tasks), st)

\* results.filter(c => c !== null), as the paths whose cache entries hold them
Produced(tasks) ==
    LET ok == SelectSeq(tasks, LAMBDA t : t.kind = "hit" \/ (t.kind = "miss" /\ t.chat # NoChat))
    IN  [j \in 1..Len(ok) |-> ok[j].filePath]

\* a variant of ClearedIndex that keeps the entries
KeptIndex(index) == index

\* this.cachedChats.clear()
ClearedIndex(index) == EmptyMap

\* a variant of BuildIndex that files a summary under the name of its file
RECURSIVE BuildIndexByName(_, _, _)
BuildIndexByName(ps, cache, index) ==
    IF ps = <<>> THEN index
    ELSE BuildIndexByName(Tail(ps), cache, MapSet(index, Basename(Head(ps)), RefTo(Head(ps))))

\* for (const chat of chats) this.cachedChats.set(chat.id, chat)
RECURSIVE BuildIndex(_, _, _)
BuildIndex(ps, cache, index) ==
    IF ps = <<>> THEN index
    ELSE BuildIndex(Tail(ps), cache, MapSet(index, MapGet(cache, Head(ps)).chat.id, RefTo(Head(ps))))

\* a save that appends the cache entries to the previous snapshot
SnapshotAppended(cache) ==
    [present |-> TRUE, collection |-> TRUE, entries |-> persisted.entries \o MapValues(cache)]

\* the value written by saveIndexToStorage
Snapshot(cache) == [present |-> TRUE, collection |-> TRUE, entries |-> MapValues(cache)]

ChatsOf(ps, cache) == [j \in 1..Len(ps) |-> MapGet(cache, ps[j]).chat]

----------------------------------------------------------------------------
(* scanAllChatHistories *)

\* the larger of two numbers
Larger(a, b) == IF a < b THEN b ELSE a

Min(a, b) == IF a < b THEN a ELSE b

ForceArg(forceRefresh) == IF forceRefresh THEN "force" ELSE ""

\* a variant of ScanShortCircuit that resets the statistics before it returns
ScanShortCircuitResetting(forceRefresh, outcome) ==
    /\ last' = Call("scan", ForceArg(forceRefresh), outcome, getAllChats, {})
    /\ scanStats' = ZeroStats
    /\ UNCHANGED <<envVars, restarts, persisted>>
    /\ UNCHANGED <<cachedChats, chatFilePaths, fileMetaCache, lastScanTime, scanInProgress,
                   pc, filesToProcess, batchStart, pending, chats, loadPc>>

\* the two early returns: return this.getAllChats()
ScanShortCircuit(forceRefresh, outcome) ==
    /\ last' = Call("scan", ForceArg(forceRefresh), outcome, getAllChats, {})
    /\ UNCHANGED <<envVars, restarts, persisted>>
    /\ UNCHANGED memVars

\* a variant of IsFresh with an empty freshness window
IsFreshNever(forceRefresh) ==
    /\ ~forceRefresh
    /\ now - lastScanTime < 0
    /\ Len(cachedChats) > 0

\* the freshness test: !forceRefresh && cacheAge < 30000 && this.cachedChats.size > 0
IsFresh(forceRefresh) ==
    /\ ~forceRefresh
    /\ now - lastScanTime < FRESH_WINDOW_MS
    /\ Len(cachedChats) > 0

\* the end of a pass that processed every batch: replace the index, stamp the
\* time, save the cache, return chats; finally clears the flag
FinishPass(arg, cache, table, stats, ps, touched, tasks) ==
    /\ cachedChats' = BuildIndex(ps, cache, ClearedIndex(cachedChats))
    /\ fileMetaCache' = cache
    /\ chatFilePaths' = table
    /\ scanStats' = [stats EXCEPT !.chatsFound = Len(ps)]
    /\ lastScanTime' = now
    /\ persisted' = Snapshot(cache)
    /\ scanInProgress' = FALSE
    /\ pc' = "idle"
    /\ chats' = <<>>
    /\ filesToProcess' = <<>>
    /\ pending' = <<>>
    /\ batchStart' = 0
    /\ last' = ScanCall(arg, "pass", ChatsOf(ps, cache), touched, tasks)

\* a variant of FailPass without the finally block: the flag stays set
FailPassKeepingFlag(arg, cache, table, index, stats, touched, tasks) ==
    /\ cachedChats' = index
    /\ fileMetaCache' = cache
    /\ chatFilePaths' = table
    /\ scanStats' = [stats EXCEPT !.errors = @ + 1]
    /\ scanInProgress' = TRUE
    /\ pc' = "idle"
    /\ chats' = <<>>
    /\ filesToProcess' = <<>>
    /\ pending' = <<>>
    /\ batchStart' = 0
    /\ last' = ScanCall(arg, "error", AllChats(index, cache), touched, tasks)
    /\ UNCHANGED <<lastScanTime, persisted>>

\* the catch block: count the error, return this.getAllChats(); finally clears the flag
FailPass(arg, cache, table, index, stats, touched, tasks) ==
    /\ cachedChats' = index
    /\ fileMetaCache' = cache
    /\ chatFilePaths' = table
    /\ scanStats' = [stats EXCEPT !.errors = @ + 1]
    /\ scanInProgress' = FALSE
    /\ pc' = "idle"
    /\ chats' = <<>>
    /\ filesToProcess' = <<>>
    /\ pending' = <<>>
    /\ batchStart' = 0
    /\ last' = ScanCall(arg, "error", AllChats(index, cache), touched, tasks)
    /\ UNCHANGED <<lastScanTime, persisted>>

\* a variant of MissingRoot that clears the Index and stamps the time
MissingRootCleared(forceRefresh) ==
    /\ scanStats' = ZeroStats
    /\ cachedChats' = EmptyMap
    /\ lastScanTime' = now
    /\ last' = ScanCall(ForceArg(forceRefresh), "noroot", <<>>, {"root"}, <<>>)
    /\ UNCHANGED <<persisted, chatFilePaths, fileMetaCache, scanInProgress, pc,
                   filesToProcess, batchStart, pending, chats>>

\* if (!fs.existsSync(workspaceStoragePath)) return []; finally clears the flag
MissingRoot(forceRefresh) ==
    /\ scanStats' = ZeroStats
    /\ last' = ScanCall(ForceArg(forceRefresh), "noroot", <<>>, {"root"}, <<>>)
    /\ UNCHANGED <<persisted, cachedChats, chatFilePaths, fileMetaCache,
                   lastScanTime, scanInProgress, pc, filesToProcess, batchStart,
                   pending, chats>>

\* a call of scanAllChatHistories, up to its first await
ScanRequest(forceRefresh) ==
    /\ Ready
    /\ IF scanInProgress THEN ScanShortCircuit(forceRefresh, "inprogress")
       ELSE IF IsFresh(forceRefresh) THEN ScanShortCircuit(forceRefresh, "fresh")
       ELSE /\ UNCHANGED <<envVars, restarts, loadPc>>
            /\ IF root = "missing"
               THEN MissingRoot(forceRefresh)
               ELSE LET d == Discover(Containers, NoDiscovery)
                        stats == [ZeroStats EXCEPT !.foldersScanned = d.foldersScanned,
                                                   !.skippedLarge = d.skippedLarge]
                    IN  IF d.threw
                        THEN FailPass(ForceArg(forceRefresh), fileMetaCache, chatFilePaths,
                                      cachedChats, stats, d.touched, <<>>)
                        ELSE IF d.files = <<>>
                        THEN FinishPass(ForceArg(forceRefresh), fileMetaCache,
                                        chatFilePaths, stats, <<>>, d.touched, <<>>)
                        ELSE            /\ filesToProcess' = d.files
                                        /\ batchStart' = 0
                                        /\ pending' = <<>>
                                        /\ scanInProgress' = TRUE
                                        /\ pc' = "batch"
                                        /\ scanStats' = stats
                                        /\ chats' = <<>>
                                        /\ last' = ScanCall(ForceArg(forceRefresh), "started",
                                                            <<>>, d.touched, <<>>)
                                        /\ UNCHANGED <<persisted, cachedChats,
                                                       chatFilePaths, fileMetaCache, lastScanTime>>

\* batch.map(...): every task of the batch runs up to its first await
BatchSync ==
    /\ pc = "batch"
    /\ ~last.held
    /\ LET batch == SubSeq(filesToProcess, batchStart + 1,
                           Min(batchStart + MAX_PARALLEL_READS, Len(filesToProcess)))
           tasks == [j \in 1..Len(batch) |-> processFileFast(batch[j])]
       IN  /\ pending' = tasks
           /\ chatFilePaths' = HitPaths(tasks, chatFilePaths)
           /\ scanStats' = [scanStats EXCEPT !.skippedCached = CountHits(tasks, @),
                                             !.errors = @ + NumErrors(tasks)]
    /\ pc' = "await"
    /\ UNCHANGED <<envVars, restarts, persisted, last, cachedChats, fileMetaCache,
                   lastScanTime, scanInProgress, filesToProcess, batchStart, chats, loadPc>>

\* the tasks of the batch complete, Promise.all settles and the pass goes on
\* to the next batch or to its end
BatchResume ==
    /\ pc = "await"
    /\ ~last.held
    /\ LET st == StoreMisses(pending, [cache |-> fileMetaCache, table |-> chatFilePaths,
                                       index |-> cachedChats])
           collected == chats \o Produced(pending)
           next == batchStart + MAX_PARALLEL_READS
       IN  IF \E j \in 1..Len(pending) : pending[j].kind = "throw"
           THEN FailPass("", st.cache, st.table, st.index, scanStats, {}, pending)
           ELSE IF next < Len(filesToProcess)
           THEN /\ pc' = "batch"
                /\ batchStart' = next
                /\ chats' = collected
                /\ cachedChats' = st.index
                /\ fileMetaCache' = st.cache
                /\ chatFilePaths' = st.table
                /\ pending' = <<>>
                /\ UNCHANGED <<scanStats, lastScanTime, persisted, scanInProgress, last,
                               filesToProcess>>
           ELSE FinishPass("", st.cache, st.table, scanStats, collected, {}, pending)
    /\ UNCHANGED <<envVars, restarts, loadPc>>

----------------------------------------------------------------------------
(* loadFullChat and reloadChatFromDisk *)

\* identities a caller may name
Ids == {"a", "s1", "x"}

\* the messages of a request list: a user message for a message text, an
\* assistant message for a response value
RECURSIVE MessagesOf(_)
MessagesOf(reqs) ==
    IF reqs = <<>> THEN <<>>
    ELSE (IF Head(reqs) = "tr" THEN <<"user", "assistant">> ELSE <<"user">>) \o MessagesOf(Tail(reqs))

\* a variant of Readable for which every file can be read and parsed
ReadableAlways(f) == TRUE

\* fs.promises.readFile + JSON.parse succeed
Readable(f) == f.kind \in {"other", "native"}

\* a variant of SetMessages that leaves the message count as it was
SetMessagesOnly(id, messages, count) ==
    LET ref == MapGet(cachedChats, id) IN
    IF ref.path # NoPath
    THEN /\ fileMetaCache' = MapSet(fileMetaCache, ref.path,
                [MapGet(fileMetaCache, ref.path) EXCEPT !.chat.messages = messages])
         /\ UNCHANGED cachedChats
    ELSE /\ cachedChats' = MapSet(cachedChats, id, Own([ref.chat EXCEPT !.messages = messages]))
         /\ UNCHANGED fileMetaCache

\* chat.messages = messages; chat.messageCount = count, on the object held
\* under id in the index (shared with a cache entry or not)
SetMessages(id, messages, count) ==
    LET ref == MapGet(cachedChats, id) IN
    IF ref.path # NoPath
    THEN /\ fileMetaCache' = MapSet(fileMetaCache, ref.path,
                [MapGet(fileMetaCache, ref.path) EXCEPT !.chat.messages = messages,
                                                         !.chat.messageCount = count])
         /\ UNCHANGED cachedChats
    ELSE /\ cachedChats' = MapSet(cachedChats, id,
                Own([ref.chat EXCEPT !.messages = messages, !.messageCount = count]))
         /\ UNCHANGED fileMetaCache

\* the list holding the chat of id, or nothing for null
Found(index, cache, id) == IF MapHas(index, id) THEN <<Deref(cache, MapGet(index, id))>> ELSE <<>>

\* loadFullChat up to the await of readFile
LoadStart(id) ==
    /\ Ready
    /\ Serial
    /\ IF ~MapHas(chatFilePaths, id)
       THEN /\ last' = Call("load", id, "nopath", Found(cachedChats, fileMetaCache, id), {})
            /\ UNCHANGED loadPc
       ELSE /\ loadPc' = [active |-> TRUE, id |-> id, path |-> MapGet(chatFilePaths, id),
                           before |-> <<>>]
            /\ last' = Call("load", id, "started", <<>>, {})
    /\ UNCHANGED <<envVars, restarts, persisted, cachedChats, chatFilePaths,
                   fileMetaCache, scanStats, lastScanTime, scanInProgress, pc, filesToProcess,
                   batchStart, pending, chats>>

\* loadFullChat after the file was read
LoadFinish ==
    /\ IoDone
    /\ loadPc.active
    /\ loadPc' = NoLoad
    /\ LET f == fs[loadPc.path]
           id == loadPc.id
           messages == MessagesOf(f.reqs)
       IN  IF ~Readable(f)
           THEN /\ last' = Call("load", id, "error", <<>>,
                                IF f.kind = "absent" THEN {} ELSE {loadPc.path})
                /\ UNCHANGED <<cachedChats, fileMetaCache>>
           ELSE IF MapHas(cachedChats, id)
           THEN /\ SetMessages(id, messages, Len(messages))
                /\ last' = Call("load", id, "loaded",
                                <<[getChatById(id) EXCEPT !.messages = messages,
                                                          !.messageCount = Len(messages)]>>,
                                {loadPc.path})
           ELSE /\ last' = Call("load", id, "loaded", <<>>, {loadPc.path})
                /\ UNCHANGED <<cachedChats, fileMetaCache>>
    /\ UNCHANGED <<envVars, restarts, persisted, chatFilePaths, scanStats,
                   lastScanTime, scanInProgress, pc, filesToProcess, batchStart, pending, chats>>

\* reloadChatFromDisk up to the await of readFile; the load in flight
\* remembers the summary the Index held when the call was made
ReloadStart(id) ==
    /\ Ready
    /\ Serial
    /\ IF MapHas(cachedChats, id)
       THEN SetMessages(id, <<>>, getChatById(id).messageCount)
       ELSE UNCHANGED <<cachedChats, fileMetaCache>>
    /\ IF ~MapHas(chatFilePaths, id)
       THEN /\ last' = Call("reload", id, "nopath",
                            IF MapHas(cachedChats, id)
                            THEN <<[getChatById(id) EXCEPT !.messages = <<>>]>> ELSE <<>>, {})
            /\ UNCHANGED loadPc
       ELSE /\ loadPc' = [active |-> TRUE, id |-> id, path |-> MapGet(chatFilePaths, id),
                           before |-> Found(cachedChats, fileMetaCache, id)]
            /\ last' = Call("reload", id, "started", <<>>, {})
    /\ UNCHANGED <<envVars, restarts, persisted, chatFilePaths, scanStats,
                   lastScanTime, scanInProgress, pc, filesToProcess, batchStart, pending, chats>>

----------------------------------------------------------------------------
(* deleteChat *)

\* a variant of deleteChat that also forgets the path of the identity
deleteChatAndPath(id) ==
    /\ Ready
    /\ Serial
    /\ cachedChats' = MapDelete(cachedChats, id)
    /\ chatFilePaths' = MapDelete(chatFilePaths, id)
    /\ last' = Call("delete", id, IF MapHas(cachedChats, id) THEN "true" ELSE "false", <<>>, {})
    /\ UNCHANGED <<envVars, restarts, persisted, fileMetaCache,
                   scanStats, lastScanTime, scanInProgress, pc, filesToProcess, batchStart,
                   pending, chats, loadPc>>

\* a variant of deleteChat that also drops the cache entry of the session
deleteChatAndCacheEntry(id) ==
    /\ Ready
    /\ Serial
    /\ cachedChats' = MapDelete(cachedChats, id)
    /\ fileMetaCache' = IF MapHas(chatFilePaths, id)
                        THEN MapDelete(fileMetaCache, MapGet(chatFilePaths, id))
                        ELSE fileMetaCache
    /\ last' = Call("delete", id, IF MapHas(cachedChats, id) THEN "true" ELSE "false", <<>>, {})
    /\ UNCHANGED <<envVars, restarts, persisted, chatFilePaths,
                   scanStats, lastScanTime, scanInProgress, pc, filesToProcess, batchStart,
                   pending, chats, loadPc>>

\* deleteChat: return this.cachedChats.delete(chatId)
deleteChat(id) ==
    /\ Ready
    /\ Serial
    /\ cachedChats' = MapDelete(cachedChats, id)
    /\ last' = Call("delete", id, IF MapHas(cachedChats, id) THEN "true" ELSE "false", <<>>, {})
    /\ UNCHANGED <<envVars, restarts, persisted, chatFilePaths, fileMetaCache,
                   scanStats, lastScanTime, scanInProgress, pc, filesToProcess, batchStart,
                   pending, chats, loadPc>>

----------------------------------------------------------------------------
(* importChats *)

\* an entry of an export payload
Entry(id) == [id |-> id, workspacePath |-> "exported", messageCount |-> 2, fileSize |-> 0,
              messages |-> <<"user", "assistant">>]

ImportEntries == {Entry("s1"), Entry("x")}

\* the chats arrays of the payloads that are imported
ChatsPayloads == {<<e>> : e \in ImportEntries} \cup {<<e1, e2>> : e1 \in ImportEntries, e2 \in ImportEntries}

\* the loop over data.chats: skip an entry whose id the index has, add the others
RECURSIVE ImportEntriesLoop(_, _)
ImportEntriesLoop(entries, st) ==
    IF entries = <<>> THEN st
    ELSE LET e == Head(entries) IN
         IF MapHas(st.index, e.id)
         THEN ImportEntriesLoop(Tail(entries), [st EXCEPT !.counts.skipped = @ + 1])
         ELSE ImportEntriesLoop(Tail(entries),
                [st EXCEPT !.index = MapSet(@, e.id, Own(e)), !.counts.imported = @ + 1])

ImportFrame ==
    UNCHANGED <<envVars, restarts, persisted, fileMetaCache, scanStats, lastScanTime,
                scanInProgress, pc, filesToProcess, batchStart, pending, chats, loadPc>>

\* shape (a): data.chats is an array
ImportChatsArray(payload) ==
    /\ IoDone
    /\ Serial
    /\ LET st == ImportEntriesLoop(payload, [index |-> cachedChats, counts |-> NoCounts])
       IN  /\ cachedChats' = st.index
           /\ last' = ImportCall("chats", st.counts.imported > 0 \/ st.counts.skipped > 0,
                                 st.counts, {})
    /\ UNCHANGED chatFilePaths
    /\ ImportFrame

\* shape (b): a single chat object with id and messages
ImportSingle(e) ==
    /\ IoDone
    /\ Serial
    /\ IF MapHas(cachedChats, e.id)
       THEN /\ last' = ImportCall("single", TRUE, [NoCounts EXCEPT !.skipped = 1], {})
            /\ UNCHANGED cachedChats
       ELSE /\ cachedChats' = MapSet(cachedChats, e.id, Own(e))
            /\ last' = ImportCall("single", TRUE, [NoCounts EXCEPT !.imported = 1], {})
    /\ UNCHANGED chatFilePaths
    /\ ImportFrame

\* convertNativeCopilotChat
convertNativeCopilotChat(f, filePath) ==
    [id |-> IF f.sid # "" THEN f.sid ELSE Basename(filePath),
     workspacePath |-> ContainerOf(filePath),
     messageCount |-> Len(MessagesOf(f.reqs)),
     fileSize |-> 0,
     messages |-> MessagesOf(f.reqs)]

\* importing the file at filePath: shape (c) for a native session file with a
\* session identifier, a failure for every other content
ImportFile(filePath) ==
    /\ IoDone
    /\ Serial
    /\ LET f == fs[filePath]
           chat == convertNativeCopilotChat(f, filePath)
           reads == IF f.kind = "absent" THEN {} ELSE {filePath}
       IN  IF f.kind = "native" /\ f.sid # ""
           THEN IF MapHas(cachedChats, chat.id)
                THEN /\ last' = ImportCall(filePath, TRUE, [NoCounts EXCEPT !.skipped = 1], reads)
                     /\ UNCHANGED <<cachedChats, chatFilePaths>>
                ELSE /\ cachedChats' = MapSet(cachedChats, chat.id, Own(chat))
                     /\ chatFilePaths' = MapSet(chatFilePaths, chat.id, filePath)
                     /\ last' = ImportCall(filePath, TRUE, [NoCounts EXCEPT !.imported = 1], reads)
           ELSE /\ last' = ImportCall(filePath, FALSE, [NoCounts EXCEPT !.errors = 1], reads)
                /\ UNCHANGED <<cachedChats, chatFilePaths>>
    /\ ImportFrame

----------------------------------------------------------------------------
(* deepSearch, getTopTopics, getGlobalWordCloud *)

SearchTerms == {"s1"}

\* occurrences of term in the raw text of a file: the session identifier is
\* the text of a file that the model tells apart
CountTerm(f, term) == IF f.kind = "native" /\ f.sid = term THEN 1 ELSE 0

QueryFrame ==
    /\ UNCHANGED <<envVars, restarts, persisted>>
    /\ UNCHANGED memVars

\* files of the path table that readFile returns
ReadPaths(table) == {table[j].v : j \in {i \in 1..Len(table) : fs[table[i].v].kind # "absent"}}

\* deepSearch([term], 'any'): every file of the path table is read; a file
\* with a match is reported when the index has its identity
deepSearch(term) ==
    /\ IoDone
    /\ Serial
    /\ LET hits == SelectSeq(chatFilePaths,
                     LAMBDA e : /\ Readable(fs[e.v])
                                /\ CountTerm(fs[e.v], term) > 0
                                /\ MapHas(cachedChats, e.k))
       IN  last' = Call("deepSearch", term, "",
                        [j \in 1..Len(hits) |-> getChatById(hits[j].k)],
                        ReadPaths(chatFilePaths))
    /\ QueryFrame

\* getTopTopics(chatId): reads the file the path table names
getTopTopics(id) ==
    /\ IoDone
    /\ Serial
    /\ MapHas(chatFilePaths, id)
    /\ last' = Call("topics", id, "", <<>>,
                    ReadPaths(<<[k |-> id, v |-> MapGet(chatFilePaths, id)]>>))
    /\ QueryFrame

\* getGlobalWordCloud(): reads every file of the path table
getGlobalWordCloud ==
    /\ IoDone
    /\ Serial
    /\ last' = Call("wordCloud", "", "", <<>>, ReadPaths(chatFilePaths))
    /\ QueryFrame

----------------------------------------------------------------------------
(* Construction *)

\* a persisted entry that is null: reading meta.chat throws
NullMeta == [id |-> "-null-", filePath |-> "-null-", mtime |-> 0, size |-> 0, chat |-> NoChat]

\* a persisted entry without fields ({}): meta.filePath is undefined
EmptyMeta == [id |-> "", filePath |-> "undefined", mtime |-> 0, size |-> 0, chat |-> NoChat]

\* loadIndexFromStorage: the cache, the path table and the index rebuilt from
\* the persisted entries; an entry that throws ends the loop in the catch
\* block, which keeps what the entries before it have set
\* a load in which the first entry of an identity keeps its place in the path
\* table and in the index
RECURSIVE loadIndexFirstWins(_, _)
loadIndexFirstWins(entries, st) ==
    IF entries = <<>> \/ Head(entries) = NullMeta THEN st
    ELSE LET meta == Head(entries)
             cache == MapSet(st.cache, meta.filePath, meta)
             index == Detach(st.index, st.cache, meta.filePath)
         IN  IF meta.chat # NoChat /\ ~MapHas(st.table, meta.chat.id)
             THEN loadIndexFirstWins(Tail(entries),
                    [cache |-> cache,
                     table |-> MapSet(st.table, meta.chat.id, meta.filePath),
                     index |-> MapSet(index, meta.chat.id, RefTo(meta.filePath))])
             ELSE loadIndexFirstWins(Tail(entries), [st EXCEPT !.cache = cache, !.index = index])

RECURSIVE loadIndexFromStorage(_, _)
loadIndexFromStorage(entries, st) ==
    IF entries = <<>> \/ Head(entries) = NullMeta THEN st
    ELSE LET meta == Head(entries)
             cache == MapSet(st.cache, meta.filePath, meta)
             index == Detach(st.index, st.cache, meta.filePath)
         IN  IF meta.chat # NoChat
             THEN loadIndexFromStorage(Tail(entries),
                    [cache |-> cache,
                     table |-> MapSet(st.table, meta.chat.id, meta.filePath),
                     index |-> MapSet(index, meta.chat.id, RefTo(meta.filePath))])
             ELSE loadIndexFromStorage(Tail(entries), [st EXCEPT !.cache = cache, !.index = index])

EmptyState == [cache |-> EmptyMap, table |-> EmptyMap, index |-> EmptyMap]

\* if (cached) { for (const meta of cached) ... }: a value that is not
\* iterable throws into the catch block before any entry is read
Constructed(p) ==
    IF p.present /\ p.collection THEN loadIndexFromStorage(p.entries, EmptyState) ELSE EmptyState

NothingPersisted == [present |-> FALSE, collection |-> FALSE, entries |-> <<>>]

\* the fields of a new ChatStorageService over the persisted state p
NewService(p) ==
    /\ fileMetaCache' = Constructed(p).cache
    /\ chatFilePaths' = Constructed(p).table
    /\ cachedChats' = Constructed(p).index
    /\ scanStats' = ZeroStats
    /\ lastScanTime' = 0
    /\ scanInProgress' = FALSE
    /\ pc' = "idle"
    /\ filesToProcess' = <<>>
    /\ batchStart' = 0
    /\ pending' = <<>>
    /\ chats' = <<>>
    /\ loadPc' = NoLoad

\* the extension host restarts: memory is lost, globalState is kept
Restart ==
    /\ Ready
    /\ restarts < MaxRestarts
    /\ restarts' = restarts + 1
    /\ NewService(persisted)
    /\ last' = [Call("restart", "", "", <<>>, {}) EXCEPT !.held = FALSE]
    /\ UNCHANGED <<envVars, persisted>>

\* the state after the first construction, over one of the disk layouts
InitWith(layouts) ==
    /\ root = "dir"
    /\ csDir = [w \in ContainerSet |-> "dir"]
    /\ fs \in layouts
    /\ now = StartNow
    /\ fsOps = 0
    /\ ticks = 0
    /\ restarts = 0
    /\ persisted = NothingPersisted
    /\ fileMetaCache = Constructed(NothingPersisted).cache
    /\ chatFilePaths = Constructed(NothingPersisted).table
    /\ cachedChats = Constructed(NothingPersisted).index
    /\ scanStats = ZeroStats
    /\ lastScanTime = 0
    /\ scanInProgress = FALSE
    /\ pc = "idle"
    /\ filesToProcess = <<>>
    /\ batchStart = 0
    /\ pending = <<>>
    /\ chats = <<>>
    /\ loadPc = NoLoad
    /\ last = [Call("new", "", "", <<>>, {}) EXCEPT !.held = FALSE]

Init == InitWith([PathSet -> InitFiles])

\* the external writer and the clock
EnvNext ==
    \/ \E p \in PathSet, c \in Contents : FsCreate(p, c)
    \/ \E p \in PathSet : FsTouch(p)
    \/ \E p \in PathSet, s \in FileSizes : FsResize(p, s)
    \/ \E p \in PathSet, c \in Contents : FsRewrite(p, c)
    \/ \E p \in PathSet : FsDelete(p)
    \/ \E p \in PathSet : FsBreak(p)
    \/ \E w \in ContainerSet, st \in {"dir", "missing", "err"} : FsSetDir(w, st)
    \/ \E st \in {"dir", "missing"} : FsSetRoot(st)
    \/ Tick

\* the scan pass
ScanNext ==
    \/ \E forceRefresh \in BOOLEAN : ScanRequest(forceRefresh)
    \/ BatchSync
    \/ BatchResume

\* the other operations of the service
OpsNext ==
    \/ \E id \in Ids : LoadStart(id)
    \/ LoadFinish
    \/ \E id \in Ids : deleteChat(id)
    \/ \E payload \in ChatsPayloads : ImportChatsArray(payload)
    \/ \E e \in ImportEntries : ImportSingle(e)
    \/ \E p \in PathSet : ImportFile(p)
    \/ \E term \in SearchTerms : deepSearch(term)
    \/ \E id \in Ids : getTopTopics(id)
    \/ getGlobalWordCloud

\* scan passes and restarts under an arbitrary external writer
NextScan == EnvNext \/ ScanNext \/ Restart \/ Return

SpecScan == Init /\ [][NextScan]_vars

\* content that cannot be parsed
Corrupt == [kind |-> "bad", sid |-> "", reqs |-> <<>>]

\* the changes of session files that an external writer makes while the
\* service runs: a file grows or shrinks, is deleted, or becomes unparseable
WriterNext ==
    \/ \E p \in PathSet, s \in FileSizes : FsResize(p, s)
    \/ \E p \in PathSet : FsRewrite(p, Corrupt)
    \/ \E p \in PathSet : FsDelete(p)

\* the disk layouts at the first start: two files with the same embedded
\* identifier, two files with different identities, one file
OpsLayouts ==
    {[p \in PathSet |-> File("native", MAX_FILE_SIZE_BYTES, 1, "s1", <<"tr", "t">>)],
     [p \in PathSet |-> File("native", MAX_FILE_SIZE_BYTES, 1, IF p = "w1/a" THEN "s1" ELSE "", <<"tr", "t">>)],
     [p \in PathSet |-> IF p = "w1/a" THEN Absent ELSE File("native", MAX_FILE_SIZE_BYTES, 1, "s1", <<"tr", "t">>)]}

InitOps == InitWith(OpsLayouts)

\* every operation of the service, with restarts, while session files change
NextOps == WriterNext \/ ScanNext \/ OpsNext \/ Restart \/ Return

SpecOps == InitOps /\ [][NextOps]_vars

\* loads and reloads of sessions whose files an external writer changes
NextReload ==
    \/ WriterNext
    \/ ScanNext
    \/ \E id \in Ids : LoadStart(id)
    \/ \E id \in Ids : ReloadStart(id)
    \/ LoadFinish
    \/ Return

SpecReload == InitOps /\ [][NextReload]_vars

----------------------------------------------------------------------------
(* Startup over an arbitrary persisted value *)

\* the summary parseMetadataFast gives for the session file at p with
\* session identifier sid and two requests
Summary(p, sid) ==
    [id |-> IF sid # "" THEN sid ELSE Basename(p), workspacePath |-> ContainerOf(p),
     messageCount |-> 4, fileSize |-> MAX_FILE_SIZE_BYTES, messages |-> <<>>]

\* a persisted cache entry of the file at p
GoodMeta(p, sid) ==
    [id |-> Summary(p, sid).id, filePath |-> p, mtime |-> 1, size |-> MAX_FILE_SIZE_BYTES,
     chat |-> Summary(p, sid)]

\* a persisted cache entry of the file at p without a chat
ChatlessMeta(p) ==
    [id |-> "s1", filePath |-> p, mtime |-> 1, size |-> MAX_FILE_SIZE_BYTES, chat |-> NoChat]

StoredMetas ==
    {GoodMeta(p, sid) : p \in PathSet, sid \in Sids} \cup {ChatlessMeta(p) : p \in PathSet}
    \cup {NullMeta, EmptyMeta}

\* longest persisted list of the start states
MaxStored == 2

RECURSIVE ListsOf(_, _)
ListsOf(S, n) == IF n = 0 THEN {<<>>} ELSE {<<>>} \cup {<<e>> \o l : e \in S, l \in ListsOf(S, n - 1)}

\* what globalState may hold under 'chatMetaCache' at a start: nothing, a
\* value that is not iterable, or a list of entries
StoredValues ==
    {NothingPersisted, [present |-> TRUE, collection |-> FALSE, entries |-> <<>>]}
    \cup {[present |-> TRUE, collection |-> TRUE, entries |-> l] : l \in ListsOf(StoredMetas, MaxStored)}

\* the state after the construction over a stored value
InitStart ==
    /\ root = "dir"
    /\ csDir = [w \in ContainerSet |-> "dir"]
    /\ fs \in OpsLayouts
    /\ now = StartNow
    /\ fsOps = 0
    /\ ticks = 0
    /\ restarts = 0
    /\ persisted \in StoredValues
    /\ fileMetaCache = Constructed(persisted).cache
    /\ chatFilePaths = Constructed(persisted).table
    /\ cachedChats = Constructed(persisted).index
    /\ scanStats = ZeroStats
    /\ lastScanTime = 0
    /\ scanInProgress = FALSE
    /\ pc = "idle"
    /\ filesToProcess = <<>>
    /\ batchStart = 0
    /\ pending = <<>>
    /\ chats = <<>>
    /\ loadPc = NoLoad
    /\ last = [Call("new", "", "", <<>>, {}) EXCEPT !.held = FALSE]

\* scan passes and restarts after a start over any stored value
NextStart == ScanNext \/ Restart \/ Return \/ (\E p \in PathSet : FsTouch(p))

SpecStart == InitStart /\ [][NextStart]_vars

\* passes after a start from any persisted value, over a disk whose root and
\* containers come and go and whose files are touched
NextLive ==
    \/ ScanNext
    \/ Restart
    \/ Return
    \/ \E p \in PathSet : FsTouch(p)
    \/ \E w \in ContainerSet, st \in {"dir", "err"} : FsSetDir(w, st)
    \/ \E st \in {"dir", "missing"} : FsSetRoot(st)

\* the scheduling of a pass: the continuation of an await whose promise has
\* settled is run by the event loop, however many other requests are answered
\* in between, and a caller takes the result it awaited
SpecLive ==
    /\ InitStart
    /\ [][NextLive]_vars
    /\ SF_vars(BatchSync) /\ SF_vars(BatchResume) /\ WF_vars(Return)

----------------------------------------------------------------------------
(* Passes over more files than one batch holds *)

\* disks with twelve, eleven and ten session files
BatchLayouts ==
    {[p \in AllPathSet |->
        IF p \in gone THEN Absent ELSE File("native", MAX_FILE_SIZE_BYTES, 1, "", <<"tr", "t">>)] :
     gone \in {{}, {"w1/a"}, PathSet}}

InitBatch == InitWith(BatchLayouts)

\* scan passes and restarts while session files are touched or become
\* unparseable
NextBatch ==
    \/ ScanNext
    \/ Restart
    \/ Return
    \/ \E p \in AllPathSet : FsTouch(p)
    \/ \E p \in AllPathSet : FsRewrite(p, Corrupt)

SpecBatch == InitBatch /\ [][NextBatch]_vars

----------------------------------------------------------------------------
(* Timestamps through a snapshot *)

\* JSON values of a date field: missing, null, a number, an ISO 8601 text
\* (seconds and milliseconds since the epoch), any other non-empty text
JsonAbsent == [kind |-> "absent"]

JsonNull == [kind |-> "null"]

JsonNum(n) == [kind |-> "num", n |-> n]

JsonIso(secs, millis) == [kind |-> "iso", secs |-> secs, millis |-> millis]

JsonText == [kind |-> "text"]

\* a Date object with time value t
DateOf(t) == [kind |-> "date", valid |-> TRUE, t |-> t]

\* a Date object whose time value is NaN
InvalidDate == [kind |-> "date", valid |-> FALSE, t |-> 0]

Truthy(v) == v.kind \in {"iso", "text", "date"} \/ (v.kind = "num" /\ v.n # 0)

\* a || b
Or(a, b) == IF Truthy(a) THEN a ELSE b

\* new Date(v)
NewDate(v) ==
    CASE v.kind = "num" -> DateOf(v.n)
      [] v.kind = "iso" -> DateOf(v.secs * 1000 + v.millis)
      [] v.kind = "null" -> DateOf(0)
      [] v.kind = "date" -> v
      [] OTHER -> InvalidDate

\* Date.prototype.toJSON, called by the serialisation of globalState
ToJSON(d) == IF d.valid THEN JsonIso(d.t \div 1000, d.t % 1000) ELSE JsonNull

\* the date fields of a session file with one request
RawDates == {JsonAbsent, JsonNum(0), JsonNum(1500), JsonIso(61, 1), JsonText}

DatedFiles ==
    [creationDate : RawDates, lastMessageDate : RawDates,
     timestamp : RawDates, responseCompleteDate : RawDates]

\* the dates of the summary parseMetadataFast builds from data
DatedSummary(data) ==
    [createdAt |-> NewDate(Or(data.creationDate, JsonNum(now))),
     updatedAt |-> NewDate(Or(data.lastMessageDate, JsonNum(now))),
     messages |-> <<>>]

\* the timestamps of the messages loadFullChat builds from data
DatedMessages(data) ==
    <<[role |-> "user",
       timestamp |-> NewDate(Or(data.timestamp, Or(data.creationDate, JsonNum(now))))],
      [role |-> "assistant",
       timestamp |-> NewDate(Or(data.responseCompleteDate, Or(data.lastMessageDate, JsonNum(now))))]>>

\* the stored form of a summary
Stringify(chat) ==
    [createdAt |-> ToJSON(chat.createdAt),
     updatedAt |-> ToJSON(chat.updatedAt),
     messages |-> [j \in 1..Len(chat.messages) |->
                     [role |-> chat.messages[j].role, timestamp |-> ToJSON(chat.messages[j].timestamp)]]]

\* the conversion loadIndexFromStorage applies to a stored summary
Rehydrate(stored) ==
    [createdAt |-> NewDate(stored.createdAt),
     updatedAt |-> NewDate(stored.updatedAt),
     messages |-> [j \in 1..Len(stored.messages) |->
                     [role |-> stored.messages[j].role, timestamp |-> NewDate(stored.messages[j].timestamp)]]]

\* one session file on its way through a pass, a snapshot and a start;
\* last holds the file, the summary in memory, its stored form and the
\* summary after the start
InitDates ==
    /\ root = "dir"
    /\ csDir = [w \in ContainerSet |-> "dir"]
    /\ fs = [p \in PathSet |-> Absent]
    /\ now = StartNow
    /\ fsOps = 0
    /\ ticks = 0
    /\ restarts = 0
    /\ persisted = NothingPersisted
    /\ fileMetaCache = EmptyMap
    /\ chatFilePaths = EmptyMap
    /\ cachedChats = EmptyMap
    /\ scanStats = ZeroStats
    /\ lastScanTime = 0
    /\ scanInProgress = FALSE
    /\ pc = "idle"
    /\ filesToProcess = <<>>
    /\ batchStart = 0
    /\ pending = <<>>
    /\ chats = <<>>
    /\ loadPc = NoLoad
    /\ \E data \in DatedFiles :
          last = [op |-> "file", data |-> data, chat |-> <<>>, stored |-> <<>>, loaded |-> <<>>]

DatesFrame == UNCHANGED <<envVars, restarts, persisted>> /\ UNCHANGED memVars

\* the scan pass reads the file
ParseDates ==
    /\ last.op = "file"
    /\ last' = [last EXCEPT !.op = "summary", !.chat = DatedSummary(last.data)]
    /\ DatesFrame

\* loadFullChat attaches the messages
AttachDates ==
    /\ last.op = "summary"
    /\ last' = [last EXCEPT !.op = "full", !.chat.messages = DatedMessages(last.data)]
    /\ DatesFrame

\* the next pass saves the cache entry
PersistDates ==
    /\ last.op \in {"summary", "full"}
    /\ last' = [last EXCEPT !.op = "stored", !.stored = Stringify(last.chat)]
    /\ DatesFrame

\* the next start loads it
LoadDates ==
    /\ last.op = "stored"
    /\ last' = [last EXCEPT !.op = "loaded", !.loaded = Rehydrate(last.stored)]
    /\ DatesFrame

NextDates == ParseDates \/ AttachDates \/ PersistDates \/ LoadDates

SpecDates == InitDates /\ [][NextDates]_vars

----------------------------------------------------------------------------
(* The messages of one request *)

\* texts are sequences of tokens; the empty text stands for a missing field
\* as well, both being falsy
NoText == <<>>

\* a content part: [value, text]
Parts == [value : {NoText, <<"v">>}, text : {NoText, <<"t">>}]

\* longest list of content parts
MaxParts == 2

\* response.result.content: missing, a list of parts, or a text
ContentValues ==
    {[kind |-> "absent", parts |-> <<>>, text |-> NoText],
     [kind |-> "text", parts |-> <<>>, text |-> <<"c">>]}
    \cup {[kind |-> "list", parts |-> l, text |-> NoText] : l \in ListsOf(Parts, MaxParts)}

\* a request of a session file: message.text, response.value,
\* response.result.value, result.value, response.result.content
Requests ==
    [text : {NoText, <<"q">>}, value : {NoText, <<"d">>}, nested : {NoText, <<"n">>},
     alt : {NoText, <<"r">>}, content : ContentValues]

\* part.value || part.text || ''
PartText(part) == IF part.value # NoText THEN part.value ELSE part.text

\* Array.prototype.join('\n') over the texts of the parts
RECURSIVE Join(_)
Join(parts) ==
    IF parts = <<>> THEN NoText
    ELSE IF Len(parts) = 1 THEN PartText(parts[1])
    ELSE PartText(parts[1]) \o <<"\n">> \o Join(Tail(parts))

\* a variant of extractResponseText that probes result.value before
\* response.result.value
extractAltFirst(request) ==
    IF request.value # NoText THEN request.value
    ELSE IF request.alt # NoText THEN request.alt
    ELSE IF request.nested # NoText THEN request.nested
    ELSE IF request.content.kind = "list" THEN Join(request.content.parts)
    ELSE request.content.text

extractResponseText(request) ==
    IF request.value # NoText THEN request.value
    ELSE IF request.nested # NoText THEN request.nested
    ELSE IF request.alt # NoText THEN request.alt
    ELSE IF request.content.kind = "list" THEN Join(request.content.parts)
    ELSE request.content.text

\* the messages loadFullChat pushes for one request
TurnMessages(request) ==
    (IF request.text # NoText THEN <<[role |-> "user", content |-> request.text]>> ELSE <<>>)
    \o (IF extractResponseText(request) # NoText
        THEN <<[role |-> "assistant", content |-> extractResponseText(request)]>> ELSE <<>>)

\* one request on its way through loadFullChat; last holds the request and
\* the messages pushed for it
InitExtract ==
    /\ root = "dir"
    /\ csDir = [w \in ContainerSet |-> "dir"]
    /\ fs = [p \in PathSet |-> Absent]
    /\ now = StartNow
    /\ fsOps = 0
    /\ ticks = 0
    /\ restarts = 0
    /\ persisted = NothingPersisted
    /\ fileMetaCache = EmptyMap
    /\ chatFilePaths = EmptyMap
    /\ cachedChats = EmptyMap
    /\ scanStats = ZeroStats
    /\ lastScanTime = 0
    /\ scanInProgress = FALSE
    /\ pc = "idle"
    /\ filesToProcess = <<>>
    /\ batchStart = 0
    /\ pending = <<>>
    /\ chats = <<>>
    /\ loadPc = NoLoad
    /\ \E request \in Requests : last = [op |-> "request", request |-> request, messages |-> <<>>]

\* the body of the loop of loadFullChat for the request
PushTurn ==
    /\ last.op = "request"
    /\ last' = [last EXCEPT !.op = "turn", !.messages = TurnMessages(last.request)]
    /\ UNCHANGED <<envVars, restarts, persisted>>
    /\ UNCHANGED memVars

NextExtract == PushTurn

SpecExtract == InitExtract /\ [][NextExtract]_vars

----------------------------------------------------------------------------
(* Export and import payloads *)

\* a ChatMessage and a ChatHistory with their dates
Msg(role, content, timestamp) == [role |-> role, content |-> content, timestamp |-> timestamp]

Chat(id, count, createdAt, messages) ==
    [id |-> id, messageCount |-> count, createdAt |-> createdAt, updatedAt |-> createdAt,
     messages |-> messages]

\* JSON values: null where an object is expected, a message, the value of a
\* messages field (missing, a text, a list), an entry of a chats array
JNull == [kind |-> "null"]

JMsg(role, content, timestamp) ==
    [kind |-> "msg", role |-> role, content |-> content, timestamp |-> timestamp]

JAbsent == [kind |-> "absent", items |-> <<>>]

JText == [kind |-> "text", items |-> <<>>]

JList(items) == [kind |-> "list", items |-> items]

JEntry(id, count, createdAt, messages) ==
    [kind |-> "chat", id |-> id, messageCount |-> count, createdAt |-> createdAt,
     updatedAt |-> createdAt, messages |-> messages]

\* JSON.stringify of a ChatHistory: dates become ISO texts or null
StringifyChat(chat) ==
    JEntry(chat.id, chat.messageCount, ToJSON(chat.createdAt),
           JList([j \in 1..Len(chat.messages) |->
                    JMsg(chat.messages[j].role, chat.messages[j].content,
                         ToJSON(chat.messages[j].timestamp))]))

\* no top-level id, messages, messageCount or dates
NoEntry == [kind |-> "chat", id |-> "", messageCount |-> 0, createdAt |-> JsonAbsent,
            updatedAt |-> JsonAbsent, messages |-> JAbsent]

\* a parsed file: unreadable or not JSON, null, or an object with its keys
\* and the fields importChats looks at: chats, the fields of a single chat
\* (top), sessionId, requests
JObject(keys, list, top, sessionId, requests) ==
    [kind |-> "object", keys |-> keys, chats |-> list, top |-> top,
     sessionId |-> sessionId, requests |-> requests]

NotJson == [kind |-> "notjson"]

\* exportChats(chats, 'json', outputPath): the content written
exportJson(list) ==
    JObject({"version", "exportedAt", "sourceExtension", "chats"},
            JList([j \in 1..Len(list) |-> StringifyChat(list[j])]),
            NoEntry, "", JAbsent)

\* a variant of RehydrateMessages that gives the messages in reverse order
RehydrateReversed(items) ==
    [j \in 1..Len(items) |->
        Msg(items[Len(items) + 1 - j].role, items[Len(items) + 1 - j].content,
            NewDate(items[Len(items) + 1 - j].timestamp))]

\* messages.map(m => ({...m, timestamp: new Date(m.timestamp)}))
RehydrateMessages(items) ==
    [j \in 1..Len(items) |-> Msg(items[j].role, items[j].content, NewDate(items[j].timestamp))]

\* the ChatHistory stored for an entry of a payload
ImportedChat(e) ==
    [id |-> e.id, messageCount |-> e.messageCount, createdAt |-> NewDate(e.createdAt),
     updatedAt |-> NewDate(e.updatedAt), messages |-> RehydrateMessages(e.messages.items)]

\* the conversion of the messages throws: messages is not an array, or one
\* of the messages is null
MessagesThrow(messages) ==
    \/ messages.kind = "text"
    \/ \E j \in 1..Len(messages.items) : messages.items[j].kind = "null"

NoResult == [imported |-> 0, skipped |-> 0, errors |-> <<>>, fatal |-> FALSE]

\* a variant of ImportLoop that replaces the summary of an identity the
\* index has
RECURSIVE ImportLoopOverwriting(_, _)
ImportLoopOverwriting(entries, st) ==
    IF entries = <<>> THEN st
    ELSE LET e == Head(entries) IN
         IF e.kind = "null" THEN [st EXCEPT !.res.fatal = TRUE]
         ELSE IF MessagesThrow(e.messages)
         THEN ImportLoopOverwriting(Tail(entries),
                [st EXCEPT !.res.errors = Append(@, [kind |-> "entry", keys |-> {e.id}])])
         ELSE ImportLoopOverwriting(Tail(entries),
                [st EXCEPT !.index = MapSet(@, e.id, Own(ImportedChat(e))),
                           !.res.imported = @ + 1])

\* for (const chat of data.chats) { try ... catch ... }: a null entry throws
\* in the try block and again in the catch block, which reads chat.id, and
\* so ends the loop
RECURSIVE ImportLoop(_, _)
ImportLoop(entries, st) ==
    IF entries = <<>> THEN st
    ELSE LET e == Head(entries) IN
         IF e.kind = "null" THEN [st EXCEPT !.res.fatal = TRUE]
         ELSE IF MapHas(st.index, e.id)
         THEN ImportLoop(Tail(entries), [st EXCEPT !.res.skipped = @ + 1])
         ELSE IF MessagesThrow(e.messages)
         THEN ImportLoop(Tail(entries),
                [st EXCEPT !.res.errors = Append(@, [kind |-> "entry", keys |-> {e.id}])])
         ELSE ImportLoop(Tail(entries),
                [st EXCEPT !.index = MapSet(@, e.id, Own(ImportedChat(e))),
                           !.res.imported = @ + 1])

RECURSIVE Flatten(_)
Flatten(lists) == IF lists = <<>> THEN <<>> ELSE Head(lists) \o Flatten(Tail(lists))

\* convertNativeCopilotChat for a file with a session identifier and a
\* non-empty request list without date fields
NativeChat(data) ==
    LET turns == Flatten([j \in 1..Len(data.requests.items) |-> TurnMessages(data.requests.items[j])])
        messages == [j \in 1..Len(turns) |-> Msg(turns[j].role, turns[j].content, DateOf(now))]
    IN  Chat(data.sessionId, Len(messages), DateOf(now), messages)

ParseError == [kind |-> "parse", keys |-> {}]

\* a variant of UnknownShape that reports nothing
UnknownShapeSilent(same, data) == same

\* result.errors.push(`Invalid chat session data ... Found keys: ...`); return result
UnknownShape(same, data) == [same EXCEPT !.res.errors = <<[kind |-> "keys", keys |-> data.keys]>>]

\* importChats after the file was read: the index, the path table and the
\* ImportResult
ImportOutcome(data, index, table, filePath) ==
    LET same == [index |-> index, table |-> table, success |-> FALSE, res |-> NoResult]
        Done(st) == [st EXCEPT !.success = st.res.imported > 0 \/ st.res.skipped > 0]
    IN  IF data.kind # "object" THEN [same EXCEPT !.res.errors = <<ParseError>>]
        ELSE IF data.chats.kind = "list"
        THEN LET st == ImportLoop(data.chats.items, same)
             IN  IF st.res.fatal THEN [st EXCEPT !.res.errors = Append(@, ParseError)]
                 ELSE Done(st)
        ELSE IF data.top.id # "" /\ data.top.messages.kind = "list"
        THEN IF MapHas(index, data.top.id) THEN Done([same EXCEPT !.res.skipped = 1])
             ELSE IF MessagesThrow(data.top.messages)
             THEN [same EXCEPT !.res.errors = <<ParseError>>]
             ELSE Done([same EXCEPT
                          !.index = MapSet(@, data.top.id, Own(ImportedChat(data.top))),
                          !.res.imported = 1])
        ELSE IF data.sessionId # "" /\ data.requests.kind # "absent"
        THEN IF data.requests.items = <<>>
             THEN [same EXCEPT !.res.errors = <<[kind |-> "native", keys |-> {}]>>]
             ELSE IF MapHas(index, data.sessionId) THEN Done([same EXCEPT !.res.skipped = 1])
             ELSE Done([same EXCEPT
                          !.index = MapSet(@, data.sessionId, Own(NativeChat(data))),
                          !.table = MapSet(@, data.sessionId, filePath),
                          !.res.imported = 1])
        ELSE UnknownShape(same, data)

----------------------------------------------------------------------------
(* importChats over any file content *)

\* entries of a chats array: null, and entries of two identities with a
\* message list, without messages, with messages that are not a list, and
\* with a null message
ImportMessages ==
    LET m1 == JMsg("user", <<"q">>, JsonIso(61, 1))
        m2 == JMsg("assistant", <<"r">>, JsonNull)
    IN  {JList(<<m1, m2>>), JAbsent, JText, JList(<<m1, JNull>>)}

EntryValues ==
    {JNull} \cup {JEntry(id, 2, JsonIso(61, 1), m) : id \in {"s1", "x"}, m \in ImportMessages}

\* longest chats array
MaxEntries == 2

\* files with a chats array
ArrayFiles == {JObject({"chats"}, JList(l), NoEntry, "", JAbsent) : l \in ListsOf(EntryValues, MaxEntries)}

\* files with the fields of one chat at the top level
SingleFiles ==
    {JObject({"id", "messages"}, JAbsent, JEntry("x", 2, JsonIso(61, 1), m), "", JAbsent) :
        m \in {JList(<<JMsg("user", <<"q">>, JsonIso(61, 1))>>), JList(<<JNull>>)}}

\* native session files with a session identifier
NativeFiles ==
    LET turn == [text |-> <<"q">>, value |-> <<"d">>, nested |-> NoText, alt |-> NoText,
                 content |-> [kind |-> "absent", parts |-> <<>>, text |-> NoText]]
    IN  {JObject({"sessionId", "requests"}, JAbsent, NoEntry, sid, JList(r)) :
            sid \in {"s1", "a"}, r \in {<<>>, <<turn>>}}

\* files of no known shape: without fields, with other fields, with chats or
\* messages that are not lists, with an id alone, with a session identifier
\* or a request list alone
OtherFiles ==
    {JObject({}, JAbsent, NoEntry, "", JAbsent),
     JObject({"foo", "bar"}, JAbsent, NoEntry, "", JAbsent),
     JObject({"chats"}, JText, NoEntry, "", JAbsent),
     JObject({"id"}, JAbsent, [NoEntry EXCEPT !.id = "x"], "", JAbsent),
     JObject({"id", "messages"}, JAbsent, [NoEntry EXCEPT !.id = "x", !.messages = JText], "", JAbsent),
     JObject({"sessionId"}, JAbsent, NoEntry, "s1", JAbsent),
     JObject({"requests"}, JAbsent, NoEntry, "", JList(<<>>))}

ImportData == {NotJson, JNull} \cup ArrayFiles \cup SingleFiles \cup NativeFiles \cup OtherFiles

\* where the imported file lies, outside the storage root
ImportPath == "import.json"

\* importChats(filePath) for a file with content data
importChats(data) ==
    /\ IoDone
    /\ Serial
    /\ LET o == ImportOutcome(data, cachedChats, chatFilePaths, ImportPath)
       IN  /\ cachedChats' = o.index
           /\ chatFilePaths' = o.table
           /\ last' = [ImportCall(data, o.success,
                                  [imported |-> o.res.imported, skipped |-> o.res.skipped,
                                   errors |-> Len(o.res.errors)], {ImportPath})
                         EXCEPT !.ret = o.res.errors]
    /\ ImportFrame

\* the service starts with an empty index or with one session in it
InitImport ==
    /\ root = "dir"
    /\ csDir = [w \in ContainerSet |-> "dir"]
    /\ fs = [p \in PathSet |-> Absent]
    /\ now = StartNow
    /\ fsOps = 0
    /\ ticks = 0
    /\ restarts = 0
    /\ persisted = NothingPersisted
    /\ fileMetaCache = EmptyMap
    /\ chatFilePaths = EmptyMap
    /\ cachedChats \in {EmptyMap, <<[k |-> "s1", v |-> Own(Chat("s1", 4, DateOf(1500), <<>>))]>>}
    /\ scanStats = ZeroStats
    /\ lastScanTime = 0
    /\ scanInProgress = FALSE
    /\ pc = "idle"
    /\ filesToProcess = <<>>
    /\ batchStart = 0
    /\ pending = <<>>
    /\ chats = <<>>
    /\ loadPc = NoLoad
    /\ last = [Call("new", "", "", <<>>, {}) EXCEPT !.held = FALSE]

NextImport ==
    \/ \E data \in ImportData : importChats(data)
    \/ \E id \in Ids : deleteChat(id)
    \/ Return

SpecImport == InitImport /\ [][NextImport]_vars

----------------------------------------------------------------------------
(* Export to a file and import of that file by a new service *)

ExportMessages ==
    LET m1 == Msg("user", <<"q">>, DateOf(61001))
        m2 == Msg("assistant", <<"r">>, InvalidDate)
    IN  {<<>>, <<m1>>, <<m1, m2>>, <<m2, m1>>}

\* summaries with attached messages; the count is exact or the estimate of
\* a scan
ExportChats ==
    {Chat(id, c, d, m) : id \in Ids, c \in {0, 1, 2, 4}, d \in {DateOf(61001), InvalidDate},
                         m \in ExportMessages}

\* most summaries of one export
MaxExported == 2

\* lists of summaries with distinct identities
ExportLists ==
    {l \in ListsOf({c \in ExportChats : c.messageCount \in {Len(c.messages), 4}}, MaxExported) :
        \A i, j \in 1..Len(l) : i # j => l[i].id # l[j].id}

\* one export on its way into a file and into the empty index of another
\* service; last holds the summaries, the file and the result of the import
InitTransfer ==
    /\ root = "dir"
    /\ csDir = [w \in ContainerSet |-> "dir"]
    /\ fs = [p \in PathSet |-> Absent]
    /\ now = StartNow
    /\ fsOps = 0
    /\ ticks = 0
    /\ restarts = 0
    /\ persisted = NothingPersisted
    /\ fileMetaCache = EmptyMap
    /\ chatFilePaths = EmptyMap
    /\ cachedChats = EmptyMap
    /\ scanStats = ZeroStats
    /\ lastScanTime = 0
    /\ scanInProgress = FALSE
    /\ pc = "idle"
    /\ filesToProcess = <<>>
    /\ batchStart = 0
    /\ pending = <<>>
    /\ chats = <<>>
    /\ loadPc = NoLoad
    /\ \E l \in ExportLists :
          last = [op |-> "chats", exported |-> l, file |-> NotJson, outcome |-> <<>>]

\* exportChats(chats, 'json', outputPath)
WriteExport ==
    /\ last.op = "chats"
    /\ last' = [last EXCEPT !.op = "file", !.file = exportJson(last.exported)]
    /\ UNCHANGED <<envVars, restarts, persisted>>
    /\ UNCHANGED memVars

\* importChats(outputPath) on a service with an empty index
ReadExport ==
    /\ last.op = "file"
    /\ last' = [last EXCEPT !.op = "imported",
                            !.outcome = ImportOutcome(last.file, EmptyMap, EmptyMap, "export.json")]
    /\ UNCHANGED <<envVars, restarts, persisted>>
    /\ UNCHANGED memVars

NextTransfer == WriteExport \/ ReadExport

SpecTransfer == InitTransfer /\ [][NextTransfer]_vars

----------------------------------------------------------------------------
(* deepSearch over the text of the files (SpecSearch) *)

\* the characters of a text: two letters, a capital and the space
Alphabet == {"d", "k", "D", " "}

MaxText == 3

MaxTerms == 2

RECURSIVE StringsUpTo(_)
StringsUpTo(n) ==
    IF n = 0 THEN {<<>>}
    ELSE StringsUpTo(n - 1) \cup {Append(t, c) : t \in {u \in StringsUpTo(n - 1) : Len(u) = n - 1}, c \in Alphabet}

LowerLetters ==
    <<"a", "b", "c", "d", "e", "f", "g", "h", "i", "j", "k", "l", "m",
      "n", "o", "p", "q", "r", "s", "t", "u", "v", "w", "x", "y", "z">>

UpperLetters ==
    <<"A", "B", "C", "D", "E", "F", "G", "H", "I", "J", "K", "L", "M",
      "N", "O", "P", "Q", "R", "S", "T", "U", "V", "W", "X", "Y", "Z">>

\* String.prototype.toLowerCase
LowerChar(c) ==
    IF \E j \in 1..Len(UpperLetters) : UpperLetters[j] = c
    THEN LowerLetters[CHOOSE j \in 1..Len(UpperLetters) : UpperLetters[j] = c]
    ELSE c

Lower(text) == [j \in 1..Len(text) |-> LowerChar(text[j])]

\* the literal pattern matches at position i under the flag i
MatchAt(content, pattern, i) ==
    \A j \in 1..Len(pattern) : LowerChar(content[i + j - 1]) = LowerChar(pattern[j])

\* content.match(new RegExp(escaped pattern, 'gi')): the matches from position
\* i on, leftmost first and not overlapping; the empty pattern matches at
\* every position and at the end
RECURSIVE CountFrom(_, _, _)
CountFrom(content, pattern, i) ==
    IF pattern = <<>> THEN Len(content) + 2 - i
    ELSE IF i + Len(pattern) - 1 > Len(content) THEN 0
    ELSE IF MatchAt(content, pattern, i) THEN 1 + CountFrom(content, pattern, i + Len(pattern))
    ELSE CountFrom(content, pattern, i + 1)

\* matches ? matches.length : 0
CountMatches(content, pattern) == CountFrom(content, pattern, 1)

\* searchTerms.join(' ')
RECURSIVE JoinTerms(_)
JoinTerms(terms) ==
    IF terms = <<>> THEN <<>>
    ELSE IF Len(terms) = 1 THEN terms[1]
    ELSE terms[1] \o <<" ">> \o JoinTerms(Tail(terms))

\* the loop over the terms: wordCounts.set(term, count); totalMatches += count
RECURSIVE CountTerms(_, _, _)
CountTerms(content, terms, acc) ==
    IF terms = <<>> THEN acc
    ELSE LET count == CountMatches(content, Lower(Head(terms)))
         IN  CountTerms(content, Tail(terms),
                        [wordCounts |-> MapSet(acc.wordCounts, Head(terms), count),
                         totalMatches |-> acc.totalMatches + count])

\* wordCounts and totalMatches of one file
Counted(content, terms, mode) ==
    IF mode = "exact"
    THEN LET count == CountMatches(content, Lower(JoinTerms(terms)))
         IN  [wordCounts |-> <<[k |-> JoinTerms(terms), v |-> count]>>, totalMatches |-> count]
    ELSE CountTerms(content, terms, [wordCounts |-> EmptyMap, totalMatches |-> 0])

\* a variant of ModeMatches that treats mode all as mode any
ModeMatchesAnyForAll(terms, mode, c) == c.totalMatches > 0

\* the test of the mode
ModeMatches(terms, mode, c) ==
    IF mode = "all"
    THEN \A j \in 1..Len(terms) : MapGet(c.wordCounts, terms[j]) > 0
    ELSE c.totalMatches > 0

\* r goes behind the results whose total is not smaller
InsertByTotal(r, sorted) ==
    LET before == {j \in 1..Len(sorted) : sorted[j].totalMatches >= r.totalMatches}
        n == IF before = {} THEN 0 ELSE CHOOSE j \in before : \A k \in before : k <= j
    IN  SubSeq(sorted, 1, n) \o <<r>> \o SubSeq(sorted, n + 1, Len(sorted))

\* results.sort((a, b) => b.totalMatches - a.totalMatches), a stable sort
RECURSIVE SortByTotal(_, _)
SortByTotal(results, sorted) ==
    IF results = <<>> THEN sorted
    ELSE SortByTotal(Tail(results), InsertByTotal(Head(results), sorted))

\* the loop over the path table: a file that cannot be read is skipped, a
\* match is pushed when the Index has the identity
RECURSIVE SearchLoop(_, _, _, _, _)
SearchLoop(table, index, disk, terms, mode) ==
    IF table = <<>> THEN <<>>
    ELSE LET e == Head(table)
             c == Counted(disk[e.v].text, terms, mode)
             rest == SearchLoop(Tail(table), index, disk, terms, mode)
         IN  IF disk[e.v].readable /\ ModeMatches(terms, mode, c) /\ MapHas(index, e.k)
             THEN <<[chat |-> MapGet(index, e.k).chat, wordCounts |-> c.wordCounts,
                     totalMatches |-> c.totalMatches, filePath |-> e.v]>> \o rest
             ELSE rest

\* deepSearch(searchTerms, mode) over a path table, an Index and the files
DeepSearchResults(table, index, disk, terms, mode) ==
    SortByTotal(SearchLoop(table, index, disk, terms, mode), <<>>)

SearchModes == {"any", "all", "exact"}

\* the empty term and the terms of one character
TermValues == {<<>>} \cup {<<c>> : c \in Alphabet}

SearchTermLists == UNION {[1..n -> TermValues] : n \in 0..MaxTerms}

\* the second file: texts, a file that cannot be read, a session that was
\* deleted from the Index
SecondFiles ==
    {[readable |-> TRUE, indexed |-> TRUE, text |-> t] :
        t \in {<<>>, <<"d", "k">>, <<"k", " ", "d">>}}
    \cup {[readable |-> FALSE, indexed |-> TRUE, text |-> <<"d", "k">>],
          [readable |-> TRUE, indexed |-> FALSE, text |-> <<"d", "k">>]}

SearchPaths == <<"w1/a", "w1/b">>

SearchTable == <<[k |-> "a", v |-> "w1/a"], [k |-> "s1", v |-> "w1/b"]>>

InitSearch ==
    /\ root = "dir"
    /\ csDir = [w \in ContainerSet |-> "dir"]
    /\ fs = [p \in PathSet |-> Absent]
    /\ now = StartNow
    /\ fsOps = 0
    /\ ticks = 0
    /\ restarts = 0
    /\ persisted = NothingPersisted
    /\ fileMetaCache = EmptyMap
    /\ chatFilePaths = SearchTable
    /\ \E second \in SecondFiles, text \in StringsUpTo(MaxText) :
          /\ cachedChats = SelectSeq(
                 <<[k |-> "a", v |-> Own(Chat("a", 2, DateOf(1500), <<>>))],
                   [k |-> "s1", v |-> Own(Chat("s1", 2, DateOf(1500), <<>>))]>>,
                 LAMBDA e : e.k = "a" \/ second.indexed)
          /\ last = [op |-> "files",
                     disk |-> [p \in {"w1/a", "w1/b"} |->
                                  IF p = "w1/a" THEN [readable |-> TRUE, text |-> text]
                                  ELSE [readable |-> second.readable, text |-> second.text]],
                     terms |-> <<>>, mode |-> "", results |-> <<>>]
    /\ scanStats = ZeroStats
    /\ lastScanTime = 0
    /\ scanInProgress = FALSE
    /\ pc = "idle"
    /\ filesToProcess = <<>>
    /\ batchStart = 0
    /\ pending = <<>>
    /\ chats = <<>>
    /\ loadPc = NoLoad

\* a call of deepSearch and its result
Search(terms, mode) ==
    /\ last.op = "files"
    /\ last' = [last EXCEPT !.op = "searched", !.terms = terms, !.mode = mode,
                            !.results = DeepSearchResults(chatFilePaths, cachedChats,
                                                          last.disk, terms, mode)]
    /\ UNCHANGED <<envVars, restarts, persisted>>
    /\ UNCHANGED memVars

NextSearch == \E terms \in SearchTermLists, mode \in SearchModes : Search(terms, mode)

SpecSearch == InitSearch /\ [][NextSearch]_vars

----------------------------------------------------------------------------
(* extractTopicsWithCounts over a text (SpecTopics) *)

\* the stop words of extractTopicsWithCounts
StopWords ==
    {"the", "a", "an", "and", "or", "but", "in", "on", "at", "to", "for", "of", "with",
     "by", "from", "as", "is", "was", "are", "were", "been", "be", "have", "has", "had",
     "do", "does", "did", "will", "would", "could", "should", "may", "might", "must",
     "shall", "can", "need", "dare", "ought", "used", "it", "its", "this", "that",
     "these", "those", "i", "you", "he", "she", "we", "they", "what", "which", "who",
     "when", "where", "why", "how", "all", "each", "every", "both", "few", "more",
     "most", "other", "some", "such", "no", "nor", "not", "only", "own", "same", "so",
     "than", "too", "very", "just", "also", "now", "here", "there", "then", "once", "if",
     "else", "elif", "true", "false", "null", "undefined", "var", "let", "const", "use",
     "using", "make", "like", "want", "know", "see", "look", "think", "take", "come",
     "go", "say", "said", "get", "got", "put", "tell", "about", "into", "over", "after",
     "before", "between", "under", "again", "further", "while", "above", "below",
     "function", "return", "import", "export", "class", "new", "try", "catch", "throw",
     "async", "await", "public", "private", "static", "void", "string", "number",
     "boolean", "any", "type", "interface", "extends", "implements", "set", "value",
     "text", "message", "response", "request", "data", "error", "result", "code", "file",
     "path", "name", "id", "key", "item", "list", "array", "object", "json", "http",
     "https", "www", "com", "org", "net", "src", "dist", "lib", "bin", "node", "modules",
     "startcolumn", "endcolumn", "startlinenumber", "endlinenumber", "linenumber",
     "column", "line", "start", "end", "index", "offset", "length", "size", "count",
     "source", "target", "origin", "destination", "input", "output", "param", "params",
     "arg", "args", "option", "options", "config", "setting", "settings", "prop",
     "props", "attr", "attribute", "element", "parent", "child", "children", "sibling",
     "next", "prev", "previous", "first", "last", "current", "default", "base", "root",
     "uri", "url", "href", "ref", "refs", "reference", "references", "link", "links",
     "context", "scope", "state", "store", "cache", "buffer", "stream", "chunk",
     "content", "contents", "body", "header", "headers", "footer", "title", "label",
     "description", "info", "detail", "details", "meta", "metadata", "schema", "model",
     "view", "controller", "service", "provider", "factory", "builder", "handler",
     "listener", "observer", "callback", "promise", "resolve", "reject", "done",
     "success", "failure", "fail", "failed", "complete", "completed", "pending",
     "loading", "loaded", "ready", "init", "initialize", "setup", "create", "update",
     "delete", "remove", "add", "insert", "append", "prepend", "push", "pop", "shift",
     "unshift", "splice", "slice", "concat", "join", "split", "map", "filter", "reduce",
     "find", "foreach", "sort", "reverse", "includes", "indexof", "keys", "values",
     "entries", "copilot", "vscode", "extension", "workspace", "editor", "document",
     "selection", "range", "position", "character", "word", "token", "symbol",
     "definition", "declaration", "implementation", "usage", "hover", "completion",
     "diagnostic", "repos", "repo", "git", "github", "commit", "branch", "merge", "pull"}

Digits == {"0", "1", "2", "3", "4", "5", "6", "7", "8", "9"}

IsLetter(c) == \E j \in 1..Len(LowerLetters) : LowerLetters[j] = c

\* the string of a sequence of characters
RECURSIVE Cat(_)
Cat(cs) == IF cs = <<>> THEN "" ELSE Head(cs) \o Cat(Tail(cs))

\* a text is the sequence of its words: the maximal runs of letters, digits
\* and underscores, which are what lies between two word boundaries

\* the run matches /\b[a-z][a-z0-9]{3,}\b/ in the lower-cased text
IsWord(run) ==
    /\ Len(run) >= 4
    /\ IsLetter(run[1])
    /\ \A j \in 2..Len(run) : IsLetter(run[j]) \/ run[j] \in Digits

\* content.toLowerCase().match(...) || []
WordsOf(text) ==
    LET lower == [j \in 1..Len(text) |-> Lower(text[j])]
    IN  SelectSeq(lower, IsWord)

\* /^[a-z]+\d+$/.test(word)
LettersThenDigits(word) ==
    \E k \in 1..(Len(word) - 1) :
        /\ \A j \in 1..k : IsLetter(word[j])
        /\ \A j \in (k + 1)..Len(word) : word[j] \in Digits

\* the test of the counting loop
Counts(word) ==
    /\ Cat(word) \notin StopWords
    /\ Len(word) >= 4
    /\ ~LettersThenDigits(word)
    /\ word[1] \notin Digits
    /\ \A j \in 1..Len(word) : word[j] # "_"

\* the loop over the words: wordCounts.set(word, (wordCounts.get(word) || 0) + 1)
RECURSIVE CountWords(_, _)
CountWords(words, wordCounts) ==
    IF words = <<>> THEN wordCounts
    ELSE LET word == Cat(Head(words))
         IN  CountWords(Tail(words),
                        IF Counts(Head(words))
                        THEN MapSet(wordCounts, word,
                                    IF MapHas(wordCounts, word) THEN MapGet(wordCounts, word) + 1 ELSE 1)
                        ELSE wordCounts)

\* a variant of InsertByCount that orders by ascending count
InsertAscending(e, sorted) ==
    LET before == {j \in 1..Len(sorted) : sorted[j].v <= e.v}
        n == IF before = {} THEN 0 ELSE CHOOSE j \in before : \A k \in before : k <= j
    IN  SubSeq(sorted, 1, n) \o <<e>> \o SubSeq(sorted, n + 1, Len(sorted))

\* e goes behind the entries whose count is not smaller
InsertByCount(e, sorted) ==
    LET before == {j \in 1..Len(sorted) : sorted[j].v >= e.v}
        n == IF before = {} THEN 0 ELSE CHOOSE j \in before : \A k \in before : k <= j
    IN  SubSeq(sorted, 1, n) \o <<e>> \o SubSeq(sorted, n + 1, Len(sorted))

\* entries.sort((a, b) => b[1] - a[1]), a stable sort
RECURSIVE SortByCount(_, _)
SortByCount(entries, sorted) ==
    IF entries = <<>> THEN sorted
    ELSE SortByCount(Tail(entries), InsertByCount(Head(entries), sorted))

\* extractTopicsWithCounts(content, count)
extractTopicsWithCounts(text, count) ==
    LET sorted == SortByCount(CountWords(WordsOf(text), EmptyMap), <<>>)
        top == SubSeq(sorted, 1, Min(count, Len(sorted)))
    IN  [j \in 1..Len(top) |-> [word |-> top[j].k, count |-> top[j].v]]

\* "The function returns a promise. The promise resolves a value."
ExampleText ==
    <<<<"T", "h", "e">>, <<"f", "u", "n", "c", "t", "i", "o", "n">>,
      <<"r", "e", "t", "u", "r", "n", "s">>, <<"a">>,
      <<"p", "r", "o", "m", "i", "s", "e">>, <<"T", "h", "e">>,
      <<"p", "r", "o", "m", "i", "s", "e">>, <<"r", "e", "s", "o", "l", "v", "e", "s">>,
      <<"a">>, <<"v", "a", "l", "u", "e">>>>

\* "shader shader xbox xbox xbox"
ShaderText ==
    <<<<"s", "h", "a", "d", "e", "r">>, <<"s", "h", "a", "d", "e", "r">>,
      <<"x", "b", "o", "x">>, <<"x", "b", "o", "x">>, <<"x", "b", "o", "x">>>>

\* words of the texts: a capital, stop words, letters before digits, a short
\* word, an underscore, digits inside, a digit in front
Vocabulary ==
    {<<"T", "h", "e">>, <<"f", "u", "n", "c", "t", "i", "o", "n">>,
      <<"r", "e", "t", "u", "r", "n", "s">>, <<"s", "h", "a", "d", "e", "r">>,
      <<"x", "b", "o", "x">>, <<"X", "b", "o", "x">>, <<"i", "t", "e", "m", "1">>,
      <<"a", "b", "c">>, <<"f", "o", "o", "_", "b", "a", "r">>,
      <<"a", "b", "1", "2", "c", "d">>, <<"2", "f", "a", "s", "t">>,
      <<"v", "a", "l", "u", "e">>}

MaxWords == 3

MaxLimit == 3

TopicTexts ==
    {ExampleText, ShaderText} \cup UNION {[1..n -> Vocabulary] : n \in 0..MaxWords}

InitTopics ==
    /\ root = "dir"
    /\ csDir = [w \in ContainerSet |-> "dir"]
    /\ fs = [p \in PathSet |-> Absent]
    /\ now = StartNow
    /\ fsOps = 0
    /\ ticks = 0
    /\ restarts = 0
    /\ persisted = NothingPersisted
    /\ fileMetaCache = EmptyMap
    /\ chatFilePaths = EmptyMap
    /\ cachedChats = EmptyMap
    /\ scanStats = ZeroStats
    /\ lastScanTime = 0
    /\ scanInProgress = FALSE
    /\ pc = "idle"
    /\ filesToProcess = <<>>
    /\ batchStart = 0
    /\ pending = <<>>
    /\ chats = <<>>
    /\ loadPc = NoLoad
    /\ \E text \in TopicTexts, limit \in 0..MaxLimit :
          last = [op |-> "text", text |-> text, limit |-> limit, topics |-> <<>>]

\* a call of extractTopicsWithCounts and its result
ExtractTopics ==
    /\ last.op = "text"
    /\ last' = [last EXCEPT !.op = "topics",
                            !.topics = extractTopicsWithCounts(last.text, last.limit)]
    /\ UNCHANGED <<envVars, restarts, persisted>>
    /\ UNCHANGED memVars

NextTopics == ExtractTopics

SpecTopics == InitTopics /\ [][NextTopics]_vars

----------------------------------------------------------------------------
(* convertToHtml over the exported summaries (SpecHtml) *)

\* a document is a sequence of pieces: a literal of the template, a
\* character of a substituted value, or the ISO text of a date
Lit(text) == [kind |-> "lit", text |-> text, t |-> 0]

Ch(c) == [kind |-> "char", text |-> c, t |-> 0]

Iso(date) == [kind |-> "iso", text |-> "", t |-> date.t]

\* the characters of a value as they are
Raw(text) == [j \in 1..Len(text) |-> Ch(text[j])]

\* msg.content.replace(/\n/g, '<br>')
Breaks(text) == [j \in 1..Len(text) |-> IF text[j] = "\n" THEN Lit("<br>") ELSE Ch(text[j])]

\* the block of one message
HtmlMessage(msg) ==
    <<Lit("<div class=\"message "), Lit(msg.role), Lit("\"><div class=\"role\">"),
      Lit(IF msg.role = "user" THEN "User" ELSE "Copilot"), Lit("</div><div>")>>
    \o Breaks(msg.content) \o <<Lit("</div></div>")>>

RECURSIVE HtmlMessages(_)
HtmlMessages(messages) ==
    IF messages = <<>> THEN <<>>
    ELSE HtmlMessage(Head(messages)) \o HtmlMessages(Tail(messages))

\* the block of one chat
HtmlChat(chat) ==
    <<Lit("<div class=\"chat\"><div class=\"workspace\">")>> \o Raw(chat.workspaceName)
    \o <<Lit("</div><div class=\"date\">Created: "), Iso(chat.createdAt), Lit("</div>")>>
    \o HtmlMessages(chat.messages) \o <<Lit("</div>")>>

RECURSIVE HtmlChats(_)
HtmlChats(list) ==
    IF list = <<>> THEN <<>> ELSE HtmlChat(Head(list)) \o HtmlChats(Tail(list))

\* convertToHtml(chats)
convertToHtml(list) ==
    <<Lit("<!DOCTYPE html><html><head><title>Copilot Chat Export</title><style>...</style></head><body><h1>Copilot Chat Export</h1><p>Exported: "),
      Iso(DateOf(now)), Lit("</p>")>>
    \o HtmlChats(list) \o <<Lit("</body></html>")>>

\* the characters of the exported values: a letter, the markup characters
\* and the line feed
HtmlAlphabet == {"a", "<", ">", "&", "\"", "\n"}

MaxHtmlText == 2

RECURSIVE HtmlTexts(_)
HtmlTexts(n) ==
    IF n = 0 THEN {<<>>}
    ELSE HtmlTexts(n - 1) \cup {Append(t, c) : t \in {u \in HtmlTexts(n - 1) : Len(u) = n - 1}, c \in HtmlAlphabet}

HtmlMessageLists ==
    {<<>>} \cup {<<[role |-> r, content |-> c]>> : r \in {"user", "assistant"}, c \in HtmlTexts(MaxHtmlText)}

\* the lists that are exported: one chat, and two chats with a message each
HtmlLists ==
    {<<>>}
    \cup {<<[workspaceName |-> w, createdAt |-> DateOf(1500), messages |-> m]>> :
            w \in HtmlTexts(MaxHtmlText), m \in HtmlMessageLists}
    \cup {<<[workspaceName |-> <<"a">>, createdAt |-> DateOf(1500),
             messages |-> <<[role |-> "user", content |-> <<"a", "\n">>]>>],
            [workspaceName |-> <<"a", "a">>, createdAt |-> DateOf(61001),
             messages |-> <<[role |-> "assistant", content |-> <<"<", "a">>]>>]>>}

InitHtml ==
    /\ root = "dir"
    /\ csDir = [w \in ContainerSet |-> "dir"]
    /\ fs = [p \in PathSet |-> Absent]
    /\ now = StartNow
    /\ fsOps = 0
    /\ ticks = 0
    /\ restarts = 0
    /\ persisted = NothingPersisted
    /\ fileMetaCache = EmptyMap
    /\ chatFilePaths = EmptyMap
    /\ cachedChats = EmptyMap
    /\ scanStats = ZeroStats
    /\ lastScanTime = 0
    /\ scanInProgress = FALSE
    /\ pc = "idle"
    /\ filesToProcess = <<>>
    /\ batchStart = 0
    /\ pending = <<>>
    /\ chats = <<>>
    /\ loadPc = NoLoad
    /\ \E list \in HtmlLists : last = [op |-> "chats", exported |-> list, html |-> <<>>]

\* exportChats(chats, 'html', outputPath): the content that is written
WriteHtml ==
    /\ last.op = "chats"
    /\ last' = [last EXCEPT !.op = "html", !.html = convertToHtml(last.exported)]
    /\ UNCHANGED <<envVars, restarts, persisted>>
    /\ UNCHANGED memVars

NextHtml == WriteHtml

SpecHtml == InitHtml /\ [][NextHtml]_vars

----------------------------------------------------------------------------
(* parseMetadataFast: the reads of one file (SpecMeta) *)

METADATA_READ_BYTES == 4096

\* Math.min(fileSize, METADATA_READ_BYTES * 4)
ReadSize(fileSize) == Min(fileSize, METADATA_READ_BYTES * 4)

\* what JSON.parse returns for the content of a session file: null, or an
\* object without requests (requests = -1) or with a list of requests
NullDoc == [kind |-> "null", sid |-> "", requests |-> -1]

ObjectDoc(sid, requests) == [kind |-> "object", sid |-> sid, requests |-> requests]

\* a file: whether it can be opened, its size, whether its first ReadSize
\* bytes are a JSON text (head), whether its whole content is one (whole),
\* and the value that is parsed
FileOf(exists, size, head, whole, doc) ==
    [exists |-> exists, size |-> size, head |-> head, whole |-> whole, doc |-> doc]

\* a variant of FullRead that reads the whole file in every case
FullReadAlways(file, prefixOk) == <<[kind |-> "full", bytes |-> file.size]>>

\* the catch of the first JSON.parse: fs.readFileSync(filePath, 'utf-8')
FullRead(file, prefixOk) ==
    IF prefixOk THEN <<>> ELSE <<[kind |-> "full", bytes |-> file.size]>>

\* parseMetadataFast(filePath, workspaceId, fileSize) over the file: the
\* reads it makes, the summary it returns (NoChat for null) and the errors
\* it counts
MetadataReads(file, filePath, workspaceId, fileSize) ==
    IF ~file.exists THEN [reads |-> <<>>, chat |-> NoChat, errors |-> 1]
    ELSE LET prefixOk == IF file.size <= ReadSize(fileSize) THEN file.whole ELSE file.head
             reads == <<[kind |-> "prefix", bytes |-> ReadSize(fileSize)]>> \o FullRead(file, prefixOk)
         IN  IF ~prefixOk /\ ~file.whole THEN [reads |-> reads, chat |-> NoChat, errors |-> 1]
             ELSE IF file.doc.kind = "null" THEN [reads |-> reads, chat |-> NoChat, errors |-> 1]
             ELSE IF file.doc.requests <= 0 THEN [reads |-> reads, chat |-> NoChat, errors |-> 0]
             ELSE [reads |-> reads,
                   chat |-> [id |-> IF file.doc.sid # "" THEN file.doc.sid ELSE Basename(filePath),
                             workspacePath |-> workspaceId,
                             messageCount |-> file.doc.requests * 2,
                             fileSize |-> fileSize,
                             messages |-> <<>>],
                   errors |-> 0]

MaxRequests == 2

MetaDocs ==
    {NullDoc} \cup {ObjectDoc(sid, n) : sid \in {"", "s1"}, n \in -1..MaxRequests}

\* sizes around the prefix length
MetaSizes ==
    {0, 1, METADATA_READ_BYTES * 4 - 1, METADATA_READ_BYTES * 4, METADATA_READ_BYTES * 4 + 1,
     MAX_FILE_SIZE_BYTES}

\* an empty file is no JSON text; the head of a file that fits the prefix is
\* the file
MetaFiles ==
    {FileOf(e, size, h, w, doc) :
        e \in BOOLEAN, size \in MetaSizes, h \in BOOLEAN, w \in BOOLEAN, doc \in MetaDocs}
    \ {f \in {FileOf(e, size, h, w, doc) :
                e \in BOOLEAN, size \in MetaSizes, h \in BOOLEAN, w \in BOOLEAN, doc \in MetaDocs} :
          (f.size = 0 /\ f.whole) \/ (f.size <= METADATA_READ_BYTES * 4 /\ f.head # f.whole)}

InitMeta ==
    /\ root = "dir"
    /\ csDir = [w \in ContainerSet |-> "dir"]
    /\ fs = [p \in PathSet |-> Absent]
    /\ now = StartNow
    /\ fsOps = 0
    /\ ticks = 0
    /\ restarts = 0
    /\ persisted = NothingPersisted
    /\ fileMetaCache = EmptyMap
    /\ chatFilePaths = EmptyMap
    /\ cachedChats = EmptyMap
    /\ scanStats = ZeroStats
    /\ lastScanTime = 0
    /\ scanInProgress = FALSE
    /\ pc = "idle"
    /\ filesToProcess = <<>>
    /\ batchStart = 0
    /\ pending = <<>>
    /\ chats = <<>>
    /\ loadPc = NoLoad
    /\ \E file \in MetaFiles :
          last = [op |-> "file", file |-> file, reads |-> <<>>, chat |-> NoChat, errors |-> 0]

\* a call of parseMetadataFast for the file at w1/a
ExtractMetadata ==
    /\ last.op = "file"
    /\ LET r == MetadataReads(last.file, "w1/a", "w1", last.file.size)
       IN  last' = [last EXCEPT !.op = "metadata", !.reads = r.reads, !.chat = r.chat,
                                !.errors = r.errors]
    /\ UNCHANGED <<envVars, restarts, persisted>>
    /\ UNCHANGED memVars

NextMeta == ExtractMetadata

SpecMeta == InitMeta /\ [][NextMeta]_vars

----------------------------------------------------------------------------
(* The operations of the service over a disk that does not change *)

ExportFormats == {"json", "markdown", "html", "vscode"}

\* a variant of exportChats that resets the messages of the first exported
\* summary
exportChatsResetting(ids, format) ==
    /\ IoDone
    /\ Serial
    /\ LET list == SelectSeq(getAllChats, LAMBDA c : c.id \in ids)
       IN  /\ last' = Call("export", format, "written", list, {})
           /\ IF Len(list) > 0
              THEN SetMessages(list[1].id, <<>>, 0)
              ELSE UNCHANGED <<cachedChats, fileMetaCache>>
    /\ UNCHANGED <<envVars, restarts, persisted, chatFilePaths, scanStats,
                   lastScanTime, scanInProgress, pc, filesToProcess, batchStart, pending,
                   chats, loadPc>>

\* exportChats(chats, format, outputPath) for the summaries of the identities
\* ids: the vscode format of one chat copies the file the path table names,
\* every other case writes the converted summaries to outputPath
exportChats(ids, format) ==
    /\ IoDone
    /\ Serial
    /\ LET list == SelectSeq(getAllChats, LAMBDA c : c.id \in ids)
           copied == IF format = "vscode" /\ Len(list) = 1 /\ MapHas(chatFilePaths, list[1].id)
                     THEN ReadPaths(<<[k |-> list[1].id, v |-> MapGet(chatFilePaths, list[1].id)]>>)
                     ELSE {}
       IN  last' = Call("export", format, IF copied # {} THEN "copied" ELSE "written", list, copied)
    /\ QueryFrame

\* getAllChats(), getChatsByWorkspace(), getScanStats()
QueryAll ==
    /\ Ready
    /\ last' = Call("getAllChats", "", "", getAllChats, {})
    /\ QueryFrame

\* getChatById(id), getChatFilePath(id)
QueryById(id) ==
    /\ Ready
    /\ last' = Call("getChatById", id,
                    IF MapHas(chatFilePaths, id) THEN MapGet(chatFilePaths, id) ELSE NoPath,
                    IF MapHas(cachedChats, id) THEN <<getChatById(id)>> ELSE <<>>, {})
    /\ QueryFrame

\* two session files with different identities and an empty path
FrameLayouts ==
    {[p \in PathSet |-> File("native", MAX_FILE_SIZE_BYTES, 1, IF p = "w1/a" THEN "s1" ELSE "", <<"tr", "t">>)]}

InitFrame == InitWith(FrameLayouts)

NextFrame ==
    \/ ScanNext
    \/ OpsNext
    \/ \E id \in Ids : ReloadStart(id)
    \/ \E ids \in SUBSET Ids, format \in ExportFormats : exportChats(ids, format)
    \/ QueryAll
    \/ \E id \in Ids : QueryById(id)
    \/ Return

SpecFrame == InitFrame /\ [][NextFrame]_vars

----------------------------------------------------------------------------
(* Claims about the staleness cache *)

\* the candidate of task j of the batch in flight
Candidate(j) == filesToProcess[batchStart + j]

\* the cache has an entry for the path of candidate f with exactly its size
\* and modification time
Matches(f) ==
    \E k \in 1..Len(fileMetaCache) :
        /\ fileMetaCache[k].k = f.filePath
        /\ fileMetaCache[k].v.mtime = f.stats.mtime
        /\ fileMetaCache[k].v.size = f.stats.size

\* C1: in a scan pass, a discovered file whose path has a cache entry with
\* exactly the size and modification time of its stat is not extracted again
\* (its task is a hit), the summary of the cache entry is what its task
\* returns, and skippedCached counts exactly one per such file.
C1_CacheHitReusesSummary ==
    pc = "await" =>
        /\ \A j \in 1..Len(pending) :
              Matches(Candidate(j)) =>
                  /\ pending[j].kind = "hit"
                  /\ pending[j].chat = MapGet(fileMetaCache, Candidate(j).filePath).chat
        /\ scanStats.skippedCached =
              Cardinality({j \in 1..Len(pending) : Matches(Candidate(j))})

\* a batch in flight with a hit beside a miss
C1_Witness ==
    /\ pc = "await"
    /\ \E i, j \in 1..Len(pending) :
          /\ Matches(Candidate(i)) /\ pending[i].kind = "hit"
          /\ ~Matches(Candidate(j)) /\ pending[j].kind = "miss"

\* C2: in a scan pass, a discovered file with no cache entry for its path, or
\* with an entry that differs in size or in modification time, is extracted
\* (its task is a miss); when extraction gives a summary, the pass leaves
\* the cache entry (identity, stat mtime, stat size, new summary) for the path,
\* which a lookup with the same stat values hits.
C2_MissExtractsAndReplaces ==
    /\ pc = "await" =>
          \A j \in 1..Len(pending) : ~Matches(Candidate(j)) => pending[j].kind = "miss"
    /\ (last.op = "scan" /\ last.outcome = "pass") =>
          \A j \in 1..Len(last.tasks) :
              LET t == last.tasks[j] IN
              (t.kind = "miss" /\ t.chat # NoChat) =>
                  /\ MapHas(fileMetaCache, t.filePath)
                  /\ MapGet(fileMetaCache, t.filePath) =
                        [id |-> t.chat.id, filePath |-> t.filePath, mtime |-> t.stats.mtime,
                         size |-> t.stats.size, chat |-> t.chat]
                  /\ Matches([filePath |-> t.filePath, stats |-> t.stats])

\* a batch in flight that extracted a summary from a file whose cache entry
\* has the size of its stat but another modification time
C2_Witness ==
    /\ pc = "await"
    /\ \E j \in 1..Len(pending) :
          /\ pending[j].kind = "miss"
          /\ pending[j].chat # NoChat
          /\ MapHas(fileMetaCache, pending[j].filePath)
          /\ MapGet(fileMetaCache, pending[j].filePath).size = pending[j].stats.size
          /\ MapGet(fileMetaCache, pending[j].filePath).mtime # pending[j].stats.mtime

----------------------------------------------------------------------------
(* Claims about the scan pass *)

\* C3: a call of scanAllChatHistories (forced or not) made while a pass is in
\* progress starts no discovery or extraction, leaves the Index, the cache, the
\* path table, the statistics and the pass in flight as they are, touches no
\* file and returns the current Index snapshot; the flag is set exactly while
\* the one pass is in flight.
C3_ScanInProgressIsExclusive ==
    [][/\ scanInProgress <=> pc # "idle"
       /\ \A forceRefresh \in BOOLEAN :
             (scanInProgress /\ ScanRequest(forceRefresh)) =>
                 /\ UNCHANGED <<cachedChats, fileMetaCache, chatFilePaths, scanStats,
                                lastScanTime, persisted>>
                 /\ UNCHANGED <<scanInProgress, pc, filesToProcess, batchStart, pending, chats>>
                 /\ last'.reads = {}
                 /\ last'.ret = getAllChats]_vars

\* a request was answered while a pass with a non-empty Index was in flight
C3_Witness ==
    /\ last.op = "scan" /\ last.outcome = "inprogress"
    /\ scanInProgress
    /\ Len(pending) > 0
    /\ Len(last.ret) > 0

\* the Index snapshot of a list of summaries: for every identity the last
\* summary of the list
Latest(list) == {list[j] : j \in {i \in 1..Len(list) : \A k \in (i + 1)..Len(list) : list[k].id # list[i].id}}

----------------------------------------------------------------------------
(* Claims about the Index, the path table and discovery *)

\* the operations that read session files outside a scan pass
ReadOps == {"load", "deepSearch", "topics", "wordCloud"}

\* the Index holds the summary of the cache entry of path p
Indexed(p) == \E j \in 1..Len(cachedChats) : cachedChats[j].v = RefTo(p)

\* C5 as stated, for the files that an earlier scan or the persisted state
\* left a cache entry for: while such a file is larger than 50 MiB, no
\* full-load, deep-search or topic operation reads it, and the Index built at
\* startup from the persisted cache does not hold its session.
C5_OversizeIsExcluded ==
    \A p \in PathSet :
        (IsLarge(fs[p].size) /\ MapHas(fileMetaCache, p)) =>
            /\ last.op \in ReadOps => p \notin last.reads
            /\ last.op = "restart" => ~Indexed(p)

\* a word cloud read a file larger than 50 MiB after the latest pass had
\* counted it as skipped-large and left it out of the Index
C5_OversizeReadAfterRescan ==
    /\ last.op = "wordCloud"
    /\ scanStats.skippedLarge > 0
    /\ \E p \in last.reads : IsLarge(fs[p].size) /\ ~Indexed(p)

\* C6: in every state the Index has at most one entry per identity and every
\* entry is filed under the identity of its summary: after the startup load,
\* scan passes, imports of the three shapes, deletes and full loads.
C6_IndexKeyIsIdentity ==
    \A i, j \in 1..Len(cachedChats) :
        /\ cachedChats[i].k = cachedChats[j].k => i = j
        /\ Deref(fileMetaCache, cachedChats[i].v).id = cachedChats[i].k

\* after a restart the Index holds an imported summary beside a scanned one
\* whose messages were loaded
C6_Witness ==
    /\ restarts > 0
    /\ \E i, j \in 1..Len(cachedChats) :
          /\ cachedChats[i].v.path = NoPath
          /\ cachedChats[j].v.path # NoPath
          /\ Deref(fileMetaCache, cachedChats[j].v).messages # <<>>

\* the tasks of the latest pass that gave a summary
Gave(tasks) == {j \in 1..Len(tasks) : tasks[j].kind = "hit" \/ (tasks[j].kind = "miss" /\ tasks[j].chat # NoChat)}

\* the last of the tasks that gave a summary of identity id
LastOf(tasks, id) ==
    CHOOSE j \in Gave(tasks) :
        /\ tasks[j].chat.id = id
        /\ \A i \in Gave(tasks) : tasks[i].chat.id = id => i <= j

\* C7 as stated: when several files of one pass carry the same identity, after
\* the pass the path table maps the identity to the last of them in discovery
\* order and the Index holds the summary of that same file, whichever of them
\* were cache hits.
C7_CollisionKeepsLastObserved ==
    (last.op = "scan" /\ last.outcome = "pass") =>
        \A i, j \in Gave(last.tasks) :
            (i # j /\ last.tasks[i].chat.id = last.tasks[j].chat.id) =>
                LET id == last.tasks[j].chat.id
                    file == last.tasks[LastOf(last.tasks, id)].filePath
                IN  /\ MapGet(chatFilePaths, id) = file
                    /\ MapGet(cachedChats, id) = RefTo(file)

\* after a pass over two files of one identity the path table names the
\* first file and the Index holds the summary of the second
C7_TableAndIndexDisagree ==
    /\ last.op = "scan" /\ last.outcome = "pass"
    /\ \E id \in MapKeys(cachedChats) :
          /\ MapGet(cachedChats, id) = RefTo(Paths[2])
          /\ MapHas(chatFilePaths, id)
          /\ MapGet(chatFilePaths, id) = Paths[1]

\* C8: a scan pass that ends successfully leaves as the Index exactly the
\* identities of the summaries it produced, each with the last summary
\* produced for it, whatever the Index held before; every other step of a
\* scan call (a short-circuit, the start of a pass, a batch, a failed pass)
\* leaves the content of the Index as it was.
C8_IndexReplacedAtEndOfPass ==
    [][ScanNext =>
          IF last'.op = "scan" /\ last'.outcome = "pass" /\ last' # last
          THEN /\ MapKeys(cachedChats') = {last'.ret[j].id : j \in 1..Len(last'.ret)}
               /\ {getAllChats'[j] : j \in 1..Len(getAllChats')} = Latest(last'.ret)
          ELSE getAllChats' = getAllChats]_vars

\* a pass ended with a non-empty Index that lacks an identity the path table
\* learned earlier
C8_Witness ==
    /\ last.op = "scan" /\ last.outcome = "pass"
    /\ Len(cachedChats) > 0
    /\ \E id \in MapKeys(chatFilePaths) : ~MapHas(cachedChats, id)

\* C9: within one run of the service, every step (scan, load, import,
\* delete, query) keeps every path of the cache and every identity of the
\* path table, also when the file is gone, oversize or unparseable.
C9_CacheAndPathTableAccumulate ==
    [][restarts' = restarts =>
          /\ MapKeys(fileMetaCache) \subseteq MapKeys(fileMetaCache')
          /\ MapKeys(chatFilePaths) \subseteq MapKeys(chatFilePaths')]_vars

\* an identity was deleted from the Index and keeps its path, while the file
\* of a cache entry is gone, oversize or unparseable
C9_Witness ==
    /\ last.op = "delete" /\ last.outcome = "true"
    /\ MapHas(chatFilePaths, last.arg)
    /\ ~MapHas(cachedChats, last.arg)
    /\ \E p \in MapKeys(fileMetaCache) : ~Readable(fs[p]) \/ IsLarge(fs[p].size)

\* the session directory of container w cannot be listed, or one of its files
\* cannot be stat-ed
Unreadable(w) == csDir[w] = "err" \/ \E p \in PathSet : ContainerOf(p) = w /\ fs[p].kind = "nostat"

\* C10 as stated: when a scan call ends in discovery, with or without an
\* error, while one sub-container cannot be read, the error is counted and the
\* session files of the readable sub-containers are in the Index.
C10_DiscoveryContinuesAfterError ==
    (/\ last.op = "scan" /\ last.outcome \in {"pass", "error"} /\ last.tasks = <<>>
     /\ \E w \in ContainerSet : Unreadable(w)) =>
        /\ scanStats.errors >= 1
        /\ \A p \in PathSet :
              (/\ ~Unreadable(ContainerOf(p))
               /\ fs[p].kind = "native" /\ Len(fs[p].reqs) > 0 /\ ~IsLarge(fs[p].size)) => Indexed(p)

\* a scan call ended with an error in the first sub-container and an empty
\* Index, while the second holds a session file
C10_DiscoveryAborted ==
    /\ last.op = "scan" /\ last.outcome = "error"
    /\ Unreadable(Containers[1])
    /\ ~Unreadable(Containers[2])
    /\ fs[Paths[2]].kind = "native"
    /\ cachedChats = EmptyMap
    /\ scanStats.errors = 1

----------------------------------------------------------------------------
(* Claims about failures, startup and persistence *)

\* the task of a candidate failed: its cache entry has no chat to return, or
\* extraction ended in its catch block
Failed(t) == t.kind = "throw" \/ t.error

\* C11 as stated: when candidates of a pass fail (I/O error, unparseable
\* content, or a cache entry without a summary), the scan call still ends as
\* a successful pass: every failure is counted once, the Index holds exactly
\* the summaries of the other candidates and the cache is persisted.
C11_FileFailureStaysLocal ==
    (last.op = "scan" /\ last.outcome \in {"pass", "error"} /\ last.tasks # <<>>) =>
        /\ last.outcome = "pass"
        /\ scanStats.errors = Cardinality({j \in 1..Len(last.tasks) : Failed(last.tasks[j])})
        /\ MapKeys(cachedChats) = {last.tasks[j].chat.id : j \in Gave(last.tasks)}
        /\ persisted = Snapshot(fileMetaCache)

\* a scan call ended in the catch block on a cache entry without a chat, and
\* the Index lacks the summary that another candidate of the batch gave
C11_PassAbortedByCacheEntry ==
    /\ last.op = "scan" /\ last.outcome = "error"
    /\ scanStats.errors = 1
    /\ \E i, j \in 1..Len(last.tasks) :
          /\ last.tasks[i].kind = "throw"
          /\ last.tasks[j].kind = "miss" /\ last.tasks[j].chat # NoChat
          /\ ~MapHas(cachedChats, last.tasks[j].chat.id)

\* C12: a scan request that is not short-circuited while the root directory
\* does not exist returns the empty list, counts no error, leaves the
\* in-progress flag clear, looks at nothing below the root and leaves the
\* Index, the cache, the path table, the last-scan time and the persisted
\* snapshot as they were.
C12_MissingRootIsEmptyResult ==
    [][\A forceRefresh \in BOOLEAN :
          (/\ root = "missing"
           /\ ~scanInProgress
           /\ forceRefresh \/ now - lastScanTime >= FRESH_WINDOW_MS \/ Len(cachedChats) = 0
           /\ ScanRequest(forceRefresh)) =>
              /\ last'.ret = <<>>
              /\ last'.reads = {"root"}
              /\ scanStats'.errors = 0
              /\ ~scanInProgress' /\ pc' = "idle"
              /\ UNCHANGED <<cachedChats, fileMetaCache, chatFilePaths, lastScanTime, persisted>>]_vars

\* a request found no root and returned the empty list while the Index of
\* an earlier pass is kept
C12_Witness ==
    /\ last.op = "scan" /\ last.outcome = "noroot"
    /\ root = "missing"
    /\ last.ret = <<>>
    /\ Len(cachedChats) > 0
    /\ lastScanTime > 0

\* the persisted value is a list of entries that all carry a summary
WellFormed(p) ==
    /\ p.present /\ p.collection
    /\ \A i \in 1..Len(p.entries) : p.entries[i].chat # NoChat

\* the position of the last persisted entry with identity id
LastWith(es, id) ==
    CHOOSE i \in 1..Len(es) : es[i].chat.id = id /\ \A j \in (i + 1)..Len(es) : es[j].chat.id # id

\* C13: right after a start over a persisted list of entries the cache has
\* one entry per persisted path, the path table maps the identity of each
\* entry's summary to the path of the last entry with that identity, the
\* Index maps it to the summary of that entry, and getAllChats / getChatById
\* answer with these summaries before any scan has run.
C13_StartupRebuildsFromSnapshot ==
    (last.op \in {"new", "restart"} /\ WellFormed(persisted)) =>
        LET es == persisted.entries
            ids == {es[i].chat.id : i \in 1..Len(es)}
            paths == {es[i].filePath : i \in 1..Len(es)}
        IN  /\ lastScanTime = 0
            /\ MapKeys(fileMetaCache) = paths
            /\ Len(fileMetaCache) = Cardinality(paths)
            /\ \A k \in 1..Len(fileMetaCache) :
                  \E i \in 1..Len(es) :
                      es[i].filePath = fileMetaCache[k].k /\ fileMetaCache[k].v = es[i]
            /\ MapKeys(chatFilePaths) = ids
            /\ MapKeys(cachedChats) = ids
            /\ Len(getAllChats) = Cardinality(ids)
            /\ \A id \in ids :
                  /\ MapGet(chatFilePaths, id) = es[LastWith(es, id)].filePath
                  /\ getChatById(id) = es[LastWith(es, id)].chat
                  /\ \E k \in 1..Len(getAllChats) : getAllChats[k] = es[LastWith(es, id)].chat

\* a start over two persisted entries of one identity at different paths:
\* the path table and the Index hold the later one
C13_Witness ==
    /\ last.op \in {"new", "restart"}
    /\ WellFormed(persisted)
    /\ Len(persisted.entries) = 2
    /\ persisted.entries[1].chat.id = persisted.entries[2].chat.id
    /\ persisted.entries[1].filePath # persisted.entries[2].filePath
    /\ MapGet(chatFilePaths, persisted.entries[2].chat.id) = persisted.entries[2].filePath
    /\ getChatById(persisted.entries[2].chat.id) = persisted.entries[2].chat
    /\ getChatById(persisted.entries[2].chat.id) # persisted.entries[1].chat

\* C14: the step that ends a successful scan pass replaces the persisted
\* snapshot by the collection of the cache entries in memory at the end of
\* that pass; every other step (a request answered while a scan is in
\* progress or within the freshness window, a request that finds no root, a
\* pass that aborts with an error) leaves the persisted snapshot as it was.
C14_SnapshotAfterEachPass ==
    [][IF ScanNext /\ pc' = "idle" /\ last'.op = "scan" /\ last'.outcome = "pass"
       THEN /\ persisted'.present /\ persisted'.collection
            /\ Len(persisted'.entries) = Len(fileMetaCache')
            /\ \A k \in 1..Len(fileMetaCache') : persisted'.entries[k] = fileMetaCache'[k].v
       ELSE persisted' = persisted]_vars

\* a successful pass has ended over a changed disk after an earlier snapshot
\* was written: the snapshot is the cache of this pass
C14_Witness ==
    /\ last.op = "scan" /\ last.outcome = "pass"
    /\ fsOps > 0
    /\ scanStats.skippedCached = 1
    /\ scanStats.chatsFound = 2
    /\ Len(persisted.entries) = 2
    /\ \A k \in 1..Len(fileMetaCache) : persisted.entries[k] = fileMetaCache[k].v

\* C15 as stated: right after a start over no persisted value, over a value
\* that is not a collection, or over a list with a malformed entry (null,
\* without fields, or without a summary) at any position, the cache, the
\* path table and the Index are empty.
C15_CorruptSnapshotStartsEmpty ==
    (last.op \in {"new", "restart"} /\ ~WellFormed(persisted)) =>
        /\ fileMetaCache = EmptyMap
        /\ chatFilePaths = EmptyMap
        /\ cachedChats = EmptyMap

\* a start over a list whose second entry is null: the entry before it is in
\* the cache, the path table and the Index
C15_PartialStart ==
    /\ last.op = "new"
    /\ persisted.present /\ persisted.collection
    /\ Len(persisted.entries) = 2
    /\ persisted.entries[2] = NullMeta
    /\ MapValues(fileMetaCache) = <<persisted.entries[1]>>
    /\ MapKeys(chatFilePaths) = {persisted.entries[1].chat.id}
    /\ getAllChats = <<persisted.entries[1].chat>>

\* a start over nothing persisted or over a value that is not a collection
\* leaves the three maps empty
C15_NoSnapshotStartsEmpty ==
    (last.op \in {"new", "restart"} /\ ~(persisted.present /\ persisted.collection)) =>
        /\ fileMetaCache = EmptyMap
        /\ chatFilePaths = EmptyMap
        /\ cachedChats = EmptyMap

\* the dates of a summary and of its messages are all valid
AllValid(chat) ==
    /\ chat.createdAt.valid /\ chat.updatedAt.valid
    /\ \A j \in 1..Len(chat.messages) : chat.messages[j].timestamp.valid

\* C16 as stated: after a cache entry written by a scan has been stored and
\* loaded by a start, the creation and last-update timestamps of its summary
\* and the timestamp of each of its messages are date values denoting the
\* instants they denoted before the entry was stored.
C16_TimestampsSurviveSnapshot ==
    last.op = "loaded" =>
        /\ last.loaded.createdAt.kind = "date" /\ last.loaded.createdAt = last.chat.createdAt
        /\ last.loaded.updatedAt.kind = "date" /\ last.loaded.updatedAt = last.chat.updatedAt
        /\ Len(last.loaded.messages) = Len(last.chat.messages)
        /\ \A j \in 1..Len(last.chat.messages) :
              /\ last.loaded.messages[j].timestamp.kind = "date"
              /\ last.loaded.messages[j].timestamp = last.chat.messages[j].timestamp

\* a summary whose creation date was no instant before the snapshot carries
\* the epoch after the start
C16_InvalidBecomesEpoch ==
    /\ last.op = "loaded"
    /\ ~last.chat.createdAt.valid
    /\ last.loaded.createdAt = DateOf(0)
    /\ Len(last.loaded.messages) = 2

\* dates that denote an instant survive the snapshot
C16_ValidTimestampsSurvive ==
    (last.op = "loaded" /\ AllValid(last.chat)) => last.loaded = last.chat

\* C17: the tasks in flight are never more than 10; they are the candidates
\* of one batch, which starts at a multiple of 10; and when a batch is about
\* to start no task is in flight and every candidate of the batches before
\* it has settled, with a summary collected or an error counted.
C17_BatchesOfTenInTurn ==
    /\ Len(pending) <= 10
    /\ pc \in {"batch", "await"} =>
          /\ batchStart % 10 = 0
          /\ batchStart < Len(filesToProcess)
    /\ pc = "await" =>
          /\ pending # <<>>
          /\ Len(pending) = IF Len(filesToProcess) - batchStart < 10
                            THEN Len(filesToProcess) - batchStart ELSE 10
          /\ \A j \in 1..Len(pending) : pending[j].filePath = filesToProcess[batchStart + j].filePath
    /\ pc = "batch" =>
          /\ pending = <<>>
          /\ Len(chats) + scanStats.errors = batchStart
    /\ pc = "idle" => pending = <<>>

\* the second batch of a pass over twelve files is in flight after the ten
\* tasks of the first have settled, one of them with an error
C17_Witness ==
    /\ pc = "await"
    /\ Len(filesToProcess) = 12
    /\ batchStart = 10
    /\ Len(pending) = 2
    /\ Len(chats) = 9
    /\ scanStats.errors = 1

\* C18: when loadFullChat has ended without an error for an identity that is
\* in the Index and had a path in the path table when it was called, the
\* summary the Index holds for it carries the messages of the file that was
\* read, in the order of the file's requests, and a message count equal to the length of that list;
\* this summary is the value returned.
C18_FullLoadOverwritesMessages ==
    (last.op = "load" /\ last.outcome = "loaded" /\ last.held /\ last.ret # <<>>) =>
        /\ MapHas(cachedChats, last.arg)
        /\ \E p \in PathSet :
              /\ last.reads = {p}
              /\ getChatById(last.arg).messages = MessagesOf(fs[p].reqs)
        /\ getChatById(last.arg).messageCount = Len(getChatById(last.arg).messages)
        /\ last.ret = <<getChatById(last.arg)>>

\* a file of two requests, one of them without a response, was loaded: the
\* summary has three messages and the count 3 where the scan estimated 4
C18_Witness ==
    /\ last.op = "load" /\ last.outcome = "loaded" /\ last.held
    /\ MapHas(cachedChats, last.arg)
    /\ getChatById(last.arg).messages = <<"user", "assistant", "user">>
    /\ getChatById(last.arg).messageCount = 3
    /\ Len(fs[MapGet(chatFilePaths, last.arg)].reqs) * 2 = 4

\* C19: when the file read by loadFullChat is missing, unreadable or not
\* JSON, the call returns null and the Index and the cache entries, and with
\* them the summary of the identity with all its fields, stay as they were
\* before the call.
C19_FailedLoadChangesNothing ==
    [][(LoadFinish /\ fs[loadPc.path].kind \in {"absent", "nostat", "bad"}) =>
          /\ last'.op = "load" /\ last'.arg = loadPc.id
          /\ last'.outcome = "error"
          /\ last'.ret = <<>>
          /\ UNCHANGED <<cachedChats, fileMetaCache, chatFilePaths>>]_vars

\* a load failed on a file that had been loaded before: the summary still
\* carries the messages and the count of the earlier load
C19_Witness ==
    /\ last.op = "load" /\ last.outcome = "error" /\ last.held
    /\ last.ret = <<>>
    /\ MapHas(cachedChats, last.arg)
    /\ fs[MapGet(chatFilePaths, last.arg)].kind = "bad"
    /\ getChatById(last.arg).messages = <<"user", "assistant", "user">>
    /\ getChatById(last.arg).messageCount = 3

\* the texts of the first n parts of a list, with a newline between each two
RECURSIVE JoinedUpTo(_, _)
JoinedUpTo(parts, n) ==
    IF n = 0 THEN NoText
    ELSE IF n = 1 THEN PartText(parts[1])
    ELSE JoinedUpTo(parts, n - 1) \o <<"\n">> \o PartText(parts[n])

JoinedParts(parts) == JoinedUpTo(parts, Len(parts))

\* the messages of a turn whose response shapes are, in priority order, shapes
Emitted(request, shapes) ==
    LET filled == {k \in 1..Len(shapes) : shapes[k] # NoText}
        taken == shapes[CHOOSE k \in filled : \A j \in filled : k <= j]
    IN  (IF request.text # NoText THEN <<[role |-> "user", content |-> request.text]>> ELSE <<>>)
        \o (IF filled # {} THEN <<[role |-> "assistant", content |-> taken]>> ELSE <<>>)

\* C20 as stated: the messages of a turn are a user message iff the request
\* text is present, followed by an assistant message taken from the first
\* non-empty of the direct value, the nested result value, the alternate
\* result field and the list of content parts joined by newlines, and by no
\* assistant message when all four are empty.
C20_AssistantFromListedShapes ==
    last.op = "turn" =>
        last.messages =
            Emitted(last.request,
                    <<last.request.value, last.request.nested, last.request.alt,
                      IF last.request.content.kind = "list"
                      THEN JoinedParts(last.request.content.parts) ELSE NoText>>)

\* C20 amended: as stated, with the content field taken as it is when it is
\* present and not a list.
C20_AssistantFromContentField ==
    last.op = "turn" =>
        last.messages =
            Emitted(last.request,
                    <<last.request.value, last.request.nested, last.request.alt,
                      IF last.request.content.kind = "list"
                      THEN JoinedParts(last.request.content.parts)
                      ELSE last.request.content.text>>)

\* a turn with a request text, the nested and the alternate value both
\* present and no direct value: the assistant message is the nested value
C20_Witness ==
    /\ last.op = "turn"
    /\ last.request.value = NoText
    /\ last.request.alt # NoText
    /\ last.request.content.kind = "list" /\ Len(last.request.content.parts) = 2
    /\ last.messages = <<[role |-> "user", content |-> <<"q">>],
                         [role |-> "assistant", content |-> <<"n">>]>>

\* a turn without any response: the user message alone
C20_UserMessageOnly ==
    /\ last.op = "turn"
    /\ last.request.content.kind = "absent"
    /\ last.messages = <<[role |-> "user", content |-> <<"q">>]>>

----------------------------------------------------------------------------
(* Claims about export and import *)

\* C21: after summaries with distinct identities and attached messages were
\* exported as JSON and the file was imported into an empty Index, the Index
\* has as many sessions as were exported and holds, for each of them, the
\* same message count and messages of the same roles and contents in the
\* same order.
C21_ExportImportRoundTrip ==
    last.op = "imported" =>
        LET index == last.outcome.index IN
        /\ Len(index) = Len(last.exported)
        /\ \A j \in 1..Len(last.exported) :
              LET c == last.exported[j] IN
              /\ MapHas(index, c.id)
              /\ MapGet(index, c.id).chat.id = c.id
              /\ MapGet(index, c.id).chat.messageCount = c.messageCount
              /\ Len(MapGet(index, c.id).chat.messages) = Len(c.messages)
              /\ \A k \in 1..Len(c.messages) :
                    /\ MapGet(index, c.id).chat.messages[k].role = c.messages[k].role
                    /\ MapGet(index, c.id).chat.messages[k].content = c.messages[k].content

\* two summaries came back, one of them with two messages of different
\* roles and the count a scan had estimated
C21_Witness ==
    /\ last.op = "imported"
    /\ Len(last.exported) = 2
    /\ Len(last.outcome.index) = 2
    /\ last.outcome.res.imported = 2
    /\ \E j \in 1..2 :
          /\ Len(last.exported[j].messages) = 2
          /\ last.exported[j].messageCount = 4
          /\ last.outcome.index[j].v.chat.messages[1].role = "assistant"
          /\ last.outcome.index[j].v.chat.messages[2].role = "user"

\* a chats array all of whose entries are objects with an identity the
\* index has, as it is after this payload was imported
AllIndexed(data, index) ==
    /\ data.kind = "object" /\ data.chats.kind = "list"
    /\ \A j \in 1..Len(data.chats.items) :
          data.chats.items[j].kind = "chat" /\ MapHas(index, data.chats.items[j].id)

\* a chats array as exportChats writes it
Exported(data) ==
    /\ data.kind = "object" /\ data.chats.kind = "list"
    /\ \A j \in 1..Len(data.chats.items) :
          /\ data.chats.items[j].kind = "chat"
          /\ data.chats.items[j].messages.kind = "list"
          /\ \A k \in 1..Len(data.chats.items[j].messages.items) :
                data.chats.items[j].messages.items[k].kind = "msg"

\* C22: an import never replaces or removes the summary the Index holds for
\* an identity; an import of a chats array whose entries all have an identity
\* that is in the Index reports imported 0, skipped the number of entries
\* and no error and leaves the Index and the path table as they were; and
\* importing an export payload right after it was imported is such an
\* import.
C22_ImportIsIdempotent ==
    [](\A data \in ImportData :
            Exported(data) =>
                AllIndexed(data, ImportOutcome(data, cachedChats, chatFilePaths, ImportPath).index))
    /\ [][\A data \in ImportData :
            importChats(data) =>
                /\ Len(cachedChats') >= Len(cachedChats)
                /\ \A k \in 1..Len(cachedChats) : cachedChats'[k] = cachedChats[k]
                /\ AllIndexed(data, cachedChats) =>
                      /\ last'.counts = [imported |-> 0, skipped |-> Len(data.chats.items),
                                         errors |-> 0]
                      /\ UNCHANGED <<cachedChats, chatFilePaths, fileMetaCache>>]_vars

\* a payload of two entries was imported while the Index held both
\* identities: both are skipped, and the summary of s1 is not the entry's
C22_Witness ==
    /\ last.op = "import" /\ last.held
    /\ Exported(last.arg)
    /\ Len(last.arg.chats.items) = 2
    /\ last.arg.chats.items[1].id # last.arg.chats.items[2].id
    /\ last.counts = [imported |-> 0, skipped |-> 2, errors |-> 0]
    /\ getChatById("s1") = Chat("s1", 4, DateOf(1500), <<>>)

\* the content matches none of the three shapes
NoShape(data) ==
    \/ data.kind = "null"
    \/ /\ data.kind = "object"
       /\ data.chats.kind # "list"
       /\ ~(data.top.id # "" /\ data.top.messages.kind = "list")
       /\ ~(data.sessionId # "" /\ data.requests.kind = "list")

ValidEntry(e) == e.kind = "chat" /\ ~MessagesThrow(e.messages)

\* C24 as stated: after an import of a chats array of n entries the imported
\* count, the skipped count and the number of errors add up to n, and every
\* valid entry of the array has its identity in the Index.
C24_EntriesAreIndependent ==
    (last.op = "import" /\ last.held /\ last.arg.kind = "object" /\ last.arg.chats.kind = "list") =>
        /\ last.counts.imported + last.counts.skipped + last.counts.errors
              = Len(last.arg.chats.items)
        /\ \A j \in 1..Len(last.arg.chats.items) :
              ValidEntry(last.arg.chats.items[j]) => MapHas(cachedChats, last.arg.chats.items[j].id)

\* a chats array with a null entry before a valid one was imported: one
\* error, and the valid entry is not in the Index
C24_LoopEndedByNullEntry ==
    /\ last.op = "import" /\ last.held
    /\ last.arg.kind = "object" /\ last.arg.chats.kind = "list"
    /\ Len(last.arg.chats.items) = 2
    /\ last.arg.chats.items[1] = JNull
    /\ ValidEntry(last.arg.chats.items[2])
    /\ ~MapHas(cachedChats, last.arg.chats.items[2].id)
    /\ last.counts = [imported |-> 0, skipped |-> 0, errors |-> 1]
    /\ last.outcome = "failure"

\* the entries of a chats array without a null entry are processed one by one
C24_ObjectEntriesAreIndependent ==
    (/\ last.op = "import" /\ last.held /\ last.arg.kind = "object"
     /\ last.arg.chats.kind = "list"
     /\ \A j \in 1..Len(last.arg.chats.items) : last.arg.chats.items[j] # JNull) =>
        /\ last.counts.imported + last.counts.skipped + last.counts.errors
              = Len(last.arg.chats.items)
        /\ \A j \in 1..Len(last.arg.chats.items) :
              ValidEntry(last.arg.chats.items[j]) => MapHas(cachedChats, last.arg.chats.items[j].id)

----------------------------------------------------------------------------
(* Claims about the operations that share the Index *)

\* the Index, the path table or the staleness cache is not what it was
SharedChanged ==
    \/ cachedChats' # cachedChats
    \/ chatFilePaths' # chatFilePaths
    \/ fileMetaCache' # fileMetaCache

\* a call returned in this step: the operation that was called
Called(ops) == ~last.held /\ last'.held /\ last'.op \in ops

\* a call of deleteChat or importChats, or the start of a reload
DeleteImportReload ==
    \/ \E id \in Ids : deleteChat(id)
    \/ \E id \in Ids : ReloadStart(id)
    \/ \E payload \in ChatsPayloads : ImportChatsArray(payload)
    \/ \E e \in ImportEntries : ImportSingle(e)
    \/ \E p \in PathSet : ImportFile(p)

\* C25 as stated: the Index, the staleness cache and the path table change
\* only in a step of a scan pass or in the loader's update; import, delete,
\* export, deep search, topic extraction and metadata queries leave them
\* unchanged.
C25_OnlyScanAndLoaderMutate ==
    [][/\ SharedChanged => (ScanNext \/ LoadFinish)
       /\ Called({"import", "delete", "export", "deepSearch", "topics", "wordCloud",
                  "getAllChats", "getChatById"})
             => UNCHANGED <<cachedChats, chatFilePaths, fileMetaCache>>]_vars

\* C25: the Index, the staleness cache and the path table change only in a
\* step of a scan pass, in the loader's update, at the start of a reload, in
\* an import and in a delete; export, deep search, topic extraction and the
\* metadata queries leave all three unchanged; a delete changes the Index
\* alone and an import leaves the staleness cache unchanged.
C25_SharedStateWriters ==
    [][/\ SharedChanged => (ScanNext \/ LoadFinish \/ DeleteImportReload)
       /\ Called({"export", "deepSearch", "topics", "wordCloud", "getAllChats", "getChatById"})
             => UNCHANGED <<cachedChats, chatFilePaths, fileMetaCache>>
       /\ Called({"delete"}) => UNCHANGED <<chatFilePaths, fileMetaCache>>
       /\ Called({"import"}) => UNCHANGED fileMetaCache]_vars

\* an export of two indexed summaries returned while the path table and the
\* staleness cache hold both files
C25_Witness ==
    /\ last.op = "export" /\ last.held
    /\ Len(last.ret) = 2
    /\ Len(cachedChats) = 2 /\ Len(chatFilePaths) = 2 /\ Len(fileMetaCache) = 2

\* an import stored a summary that no scan pass produced
C25_ImportChangedIndex ==
    /\ last.op = "import" /\ last.held
    /\ last.counts.imported = 1
    /\ MapHas(cachedChats, "x")
    /\ ~MapHas(chatFilePaths, "x")

----------------------------------------------------------------------------
(* Claims about a rescan after the disk changed *)

\* the file at p is a session file that a pass lists and summarizes
Indexable(p) ==
    /\ root = "dir" /\ csDir[ContainerOf(p)] = "dir"
    /\ fs[p].kind = "native" /\ Len(fs[p].reqs) > 0
    /\ ~IsLarge(fs[p].size)

\* the identity of the session in the file at p
IdOf(p) == IF fs[p].sid # "" THEN fs[p].sid ELSE Basename(p)

\* the Index holds a summary of every session file on disk, extracted from
\* a file as it is now, and no summary of a file that is gone
ReflectsDisk ==
    /\ \A p \in PathSet :
          Indexable(p) =>
              /\ MapHas(cachedChats, IdOf(p))
              /\ \E q \in PathSet :
                    /\ Indexable(q) /\ IdOf(q) = IdOf(p)
                    /\ getChatById(IdOf(p)).messageCount = Len(fs[q].reqs) * 2
    /\ \A j \in 1..Len(cachedChats) :
          cachedChats[j].v.path # NoPath => Indexable(cachedChats[j].v.path)

\* a rescan requested with the argument arg has returned, from the Index or
\* at the end of its pass, and the disk is as it was when it returned
Rescanned(arg) ==
    /\ last.op = "scan" /\ last.arg = arg
    /\ last.outcome \in {"fresh", "pass"}
    /\ pc = "idle"

\* C26 as stated: when a rescan requested by the Refresh History command or
\* by the file-system watcher (scanAllChatHistories without forceRefresh) has
\* completed, the Index reflects the session files that are on disk: new
\* sessions are present, changed summaries are extracted again, deleted files
\* are absent.
C26_RefreshReflectsDisk == Rescanned("") => ReflectsDisk

\* a session file was created after a pass and a rescan was requested within
\* the freshness window: the request returned the Index without the session
C26_RefreshMissedNewSession ==
    /\ Rescanned("") /\ last.outcome = "fresh"
    /\ \E p \in PathSet : Indexable(p) /\ ~MapHas(cachedChats, IdOf(p))

\* a session file was deleted after a pass and a rescan was requested within
\* the freshness window: the request returned the summary of the file
C26_RefreshKeptDeletedSession ==
    /\ Rescanned("") /\ last.outcome = "fresh"
    /\ \E j \in 1..Len(last.ret) : MapHas(chatFilePaths, last.ret[j].id)
                                     /\ fs[MapGet(chatFilePaths, last.ret[j].id)].kind = "absent"

\* a rescan with forceRefresh that has completed reflects the disk
C26_ForcedRescanReflectsDisk == Rescanned("force") => ReflectsDisk

----------------------------------------------------------------------------
(* Claims about deep search *)

\* pattern occurs in text, letters compared without regard to case
Occurs(text, pattern) ==
    \E i \in 1..(Len(text) + 1) :
        /\ i + Len(pattern) - 1 <= Len(text)
        /\ \A j \in 1..Len(pattern) : LowerChar(text[i + j - 1]) = LowerChar(pattern[j])

\* the session of identity id is in the results
InResults(id) == \E j \in 1..Len(last.results) : last.results[j].chat.id = id

\* the inclusion rule of the searched mode for a text
Included(text) ==
    \/ last.mode = "any" /\ \E j \in 1..Len(last.terms) : Occurs(text, last.terms[j])
    \/ last.mode = "all" /\ \A j \in 1..Len(last.terms) : Occurs(text, last.terms[j])
    \/ last.mode = "exact" /\ Occurs(text, JoinTerms(last.terms))

\* C27: after a deep search, a session of the path table that is in the
\* Index and whose file can be read is in the results exactly when, for mode
\* any, some term occurs in the text of its file, for mode all, every term
\* occurs in it, for mode exact, the terms joined by single spaces occur in
\* it as one phrase, letters compared without regard to case; a session that
\* is not in the Index or whose file cannot be read is not in the results,
\* and no session is in the results twice.
C27_DeepSearchInclusion ==
    last.op = "searched" =>
        /\ \A k \in 1..Len(chatFilePaths) :
              LET e == chatFilePaths[k]
              IN  InResults(e.k) <=>
                      /\ MapHas(cachedChats, e.k)
                      /\ last.disk[e.v].readable
                      /\ Included(last.disk[e.v].text)
        /\ \A i, j \in 1..Len(last.results) :
              last.results[i].chat.id = last.results[j].chat.id => i = j

\* mode all over the terms d and k: the first file has d but not k and is
\* left out, the second has both and is the one result
C27_Witness ==
    /\ last.op = "searched" /\ last.mode = "all"
    /\ last.terms = <<"d", "k">>
    /\ Occurs(last.disk["w1/a"].text, <<"d">>)
    /\ ~Occurs(last.disk["w1/a"].text, <<"k">>)
    /\ Len(last.results) = 1
    /\ last.results[1].chat.id = "s1"

\* mode any over the same terms returns both sessions
C27_AnyIsUnion ==
    /\ last.op = "searched" /\ last.mode = "any"
    /\ last.terms = <<"d", "k">>
    /\ Occurs(last.disk["w1/a"].text, <<"d">>)
    /\ ~Occurs(last.disk["w1/a"].text, <<"k">>)
    /\ Len(last.results) = 2

RECURSIVE SumValues(_)
SumValues(m) == IF m = <<>> THEN 0 ELSE Head(m).v + SumValues(Tail(m))

RECURSIVE SumOverTerms(_, _)
SumOverTerms(terms, m) ==
    IF terms = <<>> THEN 0 ELSE MapGet(m, Head(terms)) + SumOverTerms(Tail(terms), m)

\* the results are in the order of non-increasing total
OrderedByTotal ==
    \A j \in 1..(Len(last.results) - 1) :
        last.results[j].totalMatches >= last.results[j + 1].totalMatches

\* C28 as stated: after a deep search the results are in the order of
\* non-increasing total, and for every result the total is the sum of the
\* counts it reports, which are one count per supplied term for the modes any
\* and all and the one count of the phrase for mode exact.
C28_TotalIsSumOfReportedCounts ==
    last.op = "searched" =>
        /\ OrderedByTotal
        /\ \A j \in 1..Len(last.results) :
              /\ last.results[j].totalMatches = SumValues(last.results[j].wordCounts)
              /\ Len(last.results[j].wordCounts)
                    = IF last.mode = "exact" THEN 1 ELSE Len(last.terms)

\* the term d was supplied twice and occurs once in the first file: the
\* result reports the count 1 for d and the total 2
C28_RepeatedTermCountedTwice ==
    /\ last.op = "searched" /\ last.mode = "any"
    /\ last.terms = <<"d", "d">>
    /\ Len(last.results) > 0
    /\ last.results[1].filePath = "w1/a"
    /\ last.results[1].wordCounts = <<[k |-> <<"d">>, v |-> 1]>>
    /\ last.results[1].totalMatches = 2

\* the results are ordered, and the total is the sum, over the supplied
\* terms, of the count reported for the term
C28_OrderedAndTotalOverTerms ==
    last.op = "searched" =>
        /\ OrderedByTotal
        /\ \A j \in 1..Len(last.results) :
              last.results[j].totalMatches
                  = IF last.mode = "exact" THEN last.results[j].wordCounts[1].v
                    ELSE SumOverTerms(last.terms, last.results[j].wordCounts)

----------------------------------------------------------------------------
(* Claims about topic extraction *)

\* the word of a run of the text, in lower case
TokenOf(run) == Cat(Lower(run))

\* the returned words
TopicWords == {last.topics[j].word : j \in 1..Len(last.topics)}

\* the run is letters followed directly by trailing digits
TrailingDigits(run) ==
    /\ Len(run) > 1
    /\ IsLetter(LowerChar(run[1]))
    /\ run[Len(run)] \in Digits
    /\ \A j \in 1..Len(run) : IsLetter(LowerChar(run[j])) \/ run[j] \in Digits
    /\ \A j \in 1..(Len(run) - 1) : run[j] \in Digits => run[j + 1] \in Digits

\* the run is none of the words that are filtered out
Kept(run) ==
    /\ TokenOf(run) \notin StopWords
    /\ Len(run) >= 4
    /\ ~TrailingDigits(run)
    /\ run[1] \notin Digits
    /\ \A j \in 1..Len(run) : run[j] # "_"

\* every returned word is a word of the text, and no word of the text that
\* is returned is filtered out
ReturnedAreKept ==
    /\ \A w \in TopicWords : \E j \in 1..Len(last.text) : TokenOf(last.text[j]) = w
    /\ \A j \in 1..Len(last.text) : TokenOf(last.text[j]) \in TopicWords => Kept(last.text[j])

\* C29 as stated: topic extraction over "The function returns a promise. The
\* promise resolves a value." returns no pair whose word is function, promise,
\* returns, resolves or value; and no returned word is a stop word, shorter
\* than 4 characters, letters followed by trailing digits, a word that starts
\* with a digit or a word with an underscore.
C29_ExampleHasNoTopics ==
    last.op = "topics" =>
        /\ ReturnedAreKept
        /\ last.text = ExampleText =>
              TopicWords \cap {"function", "promise", "returns", "resolves", "value"} = {}

\* the example text with limit 3: returns and resolves are returned
C29_ReturnsAndResolvesReturned ==
    /\ last.op = "topics"
    /\ last.text = ExampleText /\ last.limit = 3
    /\ last.topics = <<[word |-> "returns", count |-> 1], [word |-> "resolves", count |-> 1]>>

\* no returned word is a stop word, shorter than 4 characters, letters
\* followed by trailing digits, a word that starts with a digit or a word
\* with an underscore
C29_NoFilteredWordReturned == last.op = "topics" => ReturnedAreKept

\* the occurrences of word among the words of the lower-cased text
Occurrences(word) == Cardinality({j \in 1..Len(last.text) : TokenOf(last.text[j]) = word})

\* the words of the text that are not filtered out
KeptWords == {TokenOf(last.text[j]) : j \in {i \in 1..Len(last.text) : Kept(last.text[i])}}

\* C30: topic extraction returns at most limit pairs, and as many as there
\* are surviving words when these are fewer; the words of the pairs are
\* pairwise distinct, the counts do not increase along the list, each count
\* is the number of occurrences of the word in the lower-cased text and no
\* surviving word that is left out occurs more often than a returned one;
\* "shader shader xbox xbox xbox" with a limit of 2 or more yields
\* (xbox, 3), (shader, 2).
C30_TopicsAreTopCounts ==
    last.op = "topics" =>
        /\ Len(last.topics) = Min(last.limit, Cardinality(KeptWords))
        /\ \A i, j \in 1..Len(last.topics) :
              /\ last.topics[i].word = last.topics[j].word => i = j
              /\ i < j => last.topics[i].count >= last.topics[j].count
        /\ \A j \in 1..Len(last.topics) :
              /\ last.topics[j].word \in KeptWords
              /\ last.topics[j].count = Occurrences(last.topics[j].word)
              /\ \A w \in KeptWords \ TopicWords : Occurrences(w) <= last.topics[j].count
        /\ (last.text = ShaderText /\ last.limit >= 2) =>
              last.topics = <<[word |-> "xbox", count |-> 3], [word |-> "shader", count |-> 2]>>

\* the shader text with limit 2
C30_Witness ==
    /\ last.op = "topics"
    /\ last.text = ShaderText /\ last.limit = 2
    /\ last.topics = <<[word |-> "xbox", count |-> 3], [word |-> "shader", count |-> 2]>>

\* three words, of which the one that occurs twice comes last in the text
\* and first in the result, cut to one pair by the limit
C30_LimitCuts ==
    /\ last.op = "topics"
    /\ last.limit = 1
    /\ Len(last.text) = 3
    /\ Cardinality(KeptWords) = 2
    /\ Len(last.topics) = 1
    /\ last.topics[1].count = 2
    /\ TokenOf(last.text[1]) # last.topics[1].word

----------------------------------------------------------------------------
(* Claims about the global word cloud, statistics and the end of a pass *)

\* the files of the sessions that are in the Index, by the path table
IndexedFiles ==
    {chatFilePaths[j].v : j \in {i \in 1..Len(chatFilePaths) : MapHas(cachedChats, chatFilePaths[i].k)}}

\* C31 as stated: a call of getGlobalWordCloud without a subset reads exactly
\* the files of the sessions that are in the Index; the file of a session
\* that is not in the Index is not read and adds nothing to the counts.
C31_WordCloudReadsIndexedFiles ==
    (last.op = "wordCloud" /\ last.held) => last.reads = IndexedFiles

\* a session was deleted from the Index and the word cloud read its file
C31_DeletedSessionIsRead ==
    /\ last.op = "wordCloud" /\ last.held
    /\ Len(cachedChats) = 1
    /\ \E j \in 1..Len(chatFilePaths) :
          /\ ~MapHas(cachedChats, chatFilePaths[j].k)
          /\ chatFilePaths[j].v \in last.reads
          /\ chatFilePaths[j].v \notin IndexedFiles

\* the word cloud reads the files that the path table names
C31_WordCloudReadsPathTable ==
    (last.op = "wordCloud" /\ last.held) => last.reads = ReadPaths(chatFilePaths)

----------------------------------------------------------------------------
(* Claims about the HTML export *)

MarkupChars == {"<", ">", "&", "\""}

\* the characters that the values of the exported list hold
ExportedChars ==
    UNION {{c.workspaceName[j] : j \in 1..Len(c.workspaceName)}
           \cup UNION {{m.content[j] : j \in 1..Len(m.content)} :
                         m \in {c.messages[k] : k \in 1..Len(c.messages)}} :
           c \in {last.exported[i] : i \in 1..Len(last.exported)}}

\* C32 as stated: in the HTML document of an export no character of a
\* workspace label or of a message text stands as a markup character: <, >,
\* & and the double quote of a value appear in escaped form only.
C32_HtmlEscapesContent ==
    last.op = "html" =>
        \A j \in 1..Len(last.html) :
            last.html[j].kind = "char" => last.html[j].text \notin MarkupChars

\* a message with the text <a was exported: the document holds the < of the
\* message as it is
C32_MarkupReachesDocument ==
    /\ last.op = "html"
    /\ Len(last.exported) = 1
    /\ Len(last.exported[1].messages) = 1
    /\ last.exported[1].messages[1].content = <<"<", "a">>
    /\ \E j \in 1..(Len(last.html) - 1) :
          /\ last.html[j] = Ch("<") /\ last.html[j + 1] = Ch("a")
          /\ last.html[j - 1] = Lit("</div><div>")

\* the document holds every character of the values as it is, but for the
\* line feeds of a message text, which become <br>
C32_ValuesAreCopied ==
    last.op = "html" =>
        /\ {last.html[j].text : j \in {i \in 1..Len(last.html) : last.html[i].kind = "char"}}
              \subseteq ExportedChars
        /\ ExportedChars \ {"\n"}
              \subseteq {last.html[j].text : j \in {i \in 1..Len(last.html) : last.html[i].kind = "char"}}

\* the tasks of the last batch of the pass that were of kind k
TasksOf(k) == Cardinality({j \in 1..Len(last.tasks) : last.tasks[j].kind = k})

\* the files over the ceiling in the session directories that can be listed
Oversize ==
    Cardinality({p \in DOMAIN fs : /\ csDir[ContainerOf(p)] = "dir"
                                   /\ fs[p].kind # "absent"
                                   /\ IsLarge(fs[p].size)})

\* what a scan request does to the statistics in its first step: a
\* short-circuit leaves them, a pass starts from zero and counts the
\* directories it lists and the oversize files it finds
RequestStats ==
    \A forceRefresh \in BOOLEAN :
        ScanRequest(forceRefresh) =>
            IF last'.outcome \in {"inprogress", "fresh"} THEN UNCHANGED scanStats
            ELSE /\ scanStats'.skippedCached = 0
                 /\ scanStats'.errors = IF last'.outcome = "error" THEN 1 ELSE 0
                 /\ last'.outcome = "noroot" => scanStats' = ZeroStats
                 /\ last'.outcome \in {"started", "pass"} =>
                       /\ scanStats'.skippedLarge = Oversize
                       /\ scanStats'.foldersScanned
                             = Cardinality({w \in ContainerSet : csDir[w] = "dir"})

\* a pass of one batch has ended with success, and found is sessions-found
PassStats(found) ==
    (last.op = "scan" /\ last.outcome = "pass") =>
        /\ scanStats.chatsFound = found
        /\ scanStats.skippedCached = TasksOf("hit")
        /\ scanStats.skippedCached <= scanStats.chatsFound
        /\ scanStats.errors <= Len(last.tasks) - scanStats.chatsFound

\* C33 as stated: the statistics describe the latest pass: a pass starts
\* from zero, a short-circuited request leaves them unchanged, and after a
\* successful pass sessions-found is the number of summaries in the Index,
\* the cache-hit count is the number of candidates served from the cache and
\* at most sessions-found, and skipped-large is the number of oversize files
\* that discovery found.
C33_StatsDescribeLatestPass ==
    [](PassStats(Len(cachedChats))) /\ [][RequestStats]_vars

\* a pass over two files of one identity has ended: sessions-found is 2 and
\* the Index has one summary
C33_FoundExceedsIndex ==
    /\ last.op = "scan" /\ last.outcome = "pass"
    /\ scanStats.chatsFound = 2
    /\ Len(cachedChats) = 1
    /\ Len(last.ret) = 2

\* the statistics describe the latest pass, and sessions-found is the
\* length of the list the pass returned, which is at least the number of
\* summaries in the Index
C33_StatsCountReturnedList ==
    [](PassStats(Len(last.ret)) /\ (last.op = "scan" /\ last.outcome = "pass"
                                      => Len(cachedChats) <= scanStats.chatsFound))
    /\ [][RequestStats]_vars

----------------------------------------------------------------------------
(* Claims about metadata extraction *)

\* the first ReadSize bytes of the file are a JSON text
PrefixParses ==
    IF last.file.size <= METADATA_READ_BYTES * 4 THEN last.file.whole ELSE last.file.head

\* some read of the file gave a JSON text
Parsed == PrefixParses \/ last.file.whole

\* the reads are one prefix read of min(size, 16 KiB) bytes, followed by one
\* read of the whole file exactly when the prefix is no JSON text
TwoStepReads ==
    /\ last.reads[1] = [kind |-> "prefix", bytes |-> Min(last.file.size, 16384)]
    /\ IF PrefixParses THEN Len(last.reads) = 1
       ELSE Len(last.reads) = 2 /\ last.reads[2] = [kind |-> "full", bytes |-> last.file.size]

C34_NullContentIsAnError ==
    /\ last.op = "metadata"
    /\ last.file.exists /\ PrefixParses
    /\ last.file.doc = NullDoc
    /\ Len(last.reads) = 1
    /\ last.errors = 1

\* C35: every scan pass that starts ends and clears the in-progress flag,
\* whichever way it ends (success, missing root, exception during discovery,
\* exception or rejected task during batch processing): the flag is set
\* exactly while a pass is in flight, a set flag is cleared only by the end of
\* its pass (or by a restart of the host), and a set flag is always cleared
\* later, so no scan request is short-circuited forever.
C35_PassEndsAndClearsFlag ==
    [](scanInProgress <=> pc # "idle")
    /\ [][(scanInProgress /\ ~scanInProgress') =>
            \/ last'.op = "scan" /\ last'.outcome \in {"pass", "error"}
            \/ last'.op = "restart"]_vars
    /\ (scanInProgress ~> ~scanInProgress)
    /\ ((last.op = "scan" /\ last.outcome = "inprogress" /\ scanInProgress)
           ~> (~scanInProgress /\ pc = "idle"))

\* a pass that was in flight ended by a rejected task and the flag is clear
C35_Witness ==
    /\ last.op = "scan" /\ last.outcome = "error"
    /\ \E j \in 1..Len(last.tasks) : last.tasks[j].kind = "throw"
    /\ ~scanInProgress
    /\ pc = "idle"

----------------------------------------------------------------------------
(* Claims about the list a scan request returns *)

\* the list has one element per Index entry, with the same identities and no
\* identity twice
AgreesWithIndex(list) ==
    /\ Len(list) = Len(cachedChats)
    /\ {list[j].id : j \in 1..Len(list)} = {cachedChats[j].k : j \in 1..Len(cachedChats)}
    /\ \A j, k \in 1..Len(list) : list[j].id = list[k].id => j = k

\* C36: the list returned by any scan request (full pass, in-progress
\* short-circuit, freshness short-circuit, missing root or error path) agrees
\* with the Index at the moment the request returns: one element per Index
\* entry, the same identities, no identity twice.
C36_ReturnedListIsIndex ==
    (last.op = "scan" /\ last.outcome # "started") => AgreesWithIndex(last.ret)

\* a full pass over two files of one identity returned two summaries of it,
\* and the Index holds one
C36_PassReturnedIdentityTwice ==
    /\ last.op = "scan" /\ last.outcome = "pass"
    /\ Len(last.ret) = 2
    /\ last.ret[1].id = last.ret[2].id
    /\ Len(cachedChats) = 1

\* a request that found the root missing returned the empty list and the
\* Index kept its entries
C36_MissingRootReturnedNothing ==
    /\ last.op = "scan" /\ last.outcome = "noroot"
    /\ last.ret = <<>>
    /\ Len(cachedChats) > 0

\* the two short-circuits and the error path return the Index snapshot; the
\* list of a full pass covers the identities of the Index
C36_SnapshotsAgreeWithIndex ==
    /\ (last.op = "scan" /\ last.outcome \in {"inprogress", "fresh", "error"}) =>
          AgreesWithIndex(last.ret)
    /\ (last.op = "scan" /\ last.outcome = "pass") =>
          {last.ret[j].id : j \in 1..Len(last.ret)} =
              {cachedChats[j].k : j \in 1..Len(cachedChats)}

----------------------------------------------------------------------------
(* Claims about deleteChat *)

\* the path table and the cache hold the backing file of identity id
Backed(id) ==
    /\ MapHas(chatFilePaths, id)
    /\ MapHas(fileMetaCache, MapGet(chatFilePaths, id))
    /\ MapGet(fileMetaCache, MapGet(chatFilePaths, id)).chat # NoChat
    /\ MapGet(fileMetaCache, MapGet(chatFilePaths, id)).chat.id = id

\* the identities of the summaries in the persisted snapshot
PersistedIds ==
    {persisted.entries[j].chat.id :
        j \in {i \in 1..Len(persisted.entries) : persisted.entries[i].chat # NoChat}}

\* a full pass completes in this step
PassCompletes == ScanNext /\ last'.op = "scan" /\ last'.outcome = "pass"

\* C37: deleteChat(identity) returns true iff the identity was in the Index and
\* removes only the Index entry: the cache, the path table, the persisted
\* snapshot and the disk are unchanged (a session with a backing file stays in
\* the snapshot); the next completed full pass puts every session back whose
\* file it discovers (as a cache hit or with a summary), and a restart puts
\* every session of the snapshot back into the Index.
C37_DeleteRemovesIndexEntryOnly ==
    [][/\ \A id \in Ids :
             deleteChat(id) =>
                 /\ last'.outcome = "true" <=> MapHas(cachedChats, id)
                 /\ ~MapHas(cachedChats', id)
                 /\ MapKeys(cachedChats') = MapKeys(cachedChats) \ {id}
                 /\ UNCHANGED <<fileMetaCache, chatFilePaths, persisted, fs>>
                 /\ (MapHas(cachedChats, id) /\ Backed(id)) => id \in PersistedIds'
       /\ PassCompletes =>
             \A j \in 1..Len(last'.tasks) :
                 last'.tasks[j].chat # NoChat => MapHas(cachedChats', last'.tasks[j].chat.id)
       /\ (restarts' = restarts + 1) => \A id \in PersistedIds : MapHas(cachedChats', id)]_vars

\* a session with a backing file was deleted: it is out of the Index and still
\* in the cache, the path table, the snapshot and on disk
C37_Witness ==
    /\ last.op = "delete" /\ last.outcome = "true"
    /\ ~MapHas(cachedChats, last.arg)
    /\ Backed(last.arg)
    /\ last.arg \in PersistedIds
    /\ fs[MapGet(chatFilePaths, last.arg)].kind = "native"

\* a full pass completed with a cache hit for a session that a restart would
\* also bring back
C37_PassRestored ==
    /\ last.op = "scan" /\ last.outcome = "pass"
    /\ \E j \in 1..Len(last.tasks) :
          /\ last.tasks[j].kind = "hit"
          /\ MapHas(cachedChats, last.tasks[j].chat.id)
          /\ last.tasks[j].chat.id \in PersistedIds

----------------------------------------------------------------------------
(* Claims about reloadChatFromDisk *)

\* the read of a reloadChatFromDisk call fails in this step
ReloadFails == LoadFinish /\ loadPc.before # <<>> /\ last'.outcome = "error"

\* C38: if reloadChatFromDisk(identity) fails to read or parse the backing
\* file, it returns null and the summary the Index holds for the identity has
\* the message list and the message count it had before the call.
C38_FailedReloadKeepsSummary ==
    [][ReloadFails =>
          /\ last'.ret = <<>>
          /\ \A j \in 1..Len(Found(cachedChats', fileMetaCache', loadPc.id)) :
                LET after == Found(cachedChats', fileMetaCache', loadPc.id)[j]
                IN  /\ after.messages = loadPc.before[1].messages
                    /\ after.messageCount = loadPc.before[1].messageCount]_vars

\* a read failed for a session whose messages had been loaded: the summary
\* has no messages and the count of the loaded ones
C38_FailedReloadLostMessages ==
    /\ last.op = "load" /\ last.outcome = "error" /\ last.ret = <<>>
    /\ MapHas(cachedChats, last.arg)
    /\ getChatById(last.arg).messages = <<>>
    /\ getChatById(last.arg).messageCount = Len(MessagesOf(<<"tr", "t">>))

\* a failed reload returns null, and leaves the summary with the message
\* count it had and the list that the call emptied before the read
C38_FailedReloadEmptiesMessages ==
    [][ReloadFails =>
          /\ last'.ret = <<>>
          /\ UNCHANGED <<cachedChats, fileMetaCache, chatFilePaths>>
          /\ MapHas(cachedChats, loadPc.id) => getChatById(loadPc.id).messages = <<>>]_vars

----------------------------------------------------------------------------
(* Claims about the result of an import *)

\* the result of the importChats call of this step agrees with what the call
\* did to the Index
ResultMatchesIndex ==
    /\ last'.outcome = "success" <=> (last'.counts.imported > 0 \/ last'.counts.skipped > 0)
    /\ last'.counts.imported = Cardinality(MapKeys(cachedChats') \ MapKeys(cachedChats))
    /\ MapKeys(cachedChats') \ MapKeys(cachedChats) # {} => last'.outcome = "success"

\* C39: the import result is consistent with its effect on the Index: on
\* return success is true iff importedCount > 0 or skippedCount > 0,
\* importedCount is the number of identities the call added to the Index, and
\* a call that added a session reports success.
C39_ResultMatchesIndex ==
    [][\A data \in ImportData : importChats(data) => ResultMatchesIndex]_vars

\* a chats array with a valid entry before a null entry was imported: the
\* session is in the Index, one session is counted, and the call failed
C39_AddedButReportedFailure ==
    /\ last.op = "import" /\ last.held
    /\ last.arg.kind = "object" /\ last.arg.chats.kind = "list"
    /\ Len(last.arg.chats.items) = 2
    /\ ValidEntry(last.arg.chats.items[1])
    /\ last.arg.chats.items[2] = JNull
    /\ MapHas(cachedChats, last.arg.chats.items[1].id)
    /\ last.counts.imported = 1
    /\ last.outcome = "failure"

\* the imported count is the number of identities added, and the result of
\* an import that was not ended by a null entry of a chats array is
\* consistent with the Index
C39_ResultMatchesIndexUnlessAborted ==
    [][\A data \in ImportData :
          importChats(data) =>
              /\ last'.counts.imported = Cardinality(MapKeys(cachedChats') \ MapKeys(cachedChats))
              /\ last'.outcome = "success" =>
                    (last'.counts.imported > 0 \/ last'.counts.skipped > 0)
              /\ ~(/\ data.kind = "object" /\ data.chats.kind = "list"
                    /\ \E j \in 1..Len(data.chats.items) : data.chats.items[j] = JNull)
                    => ResultMatchesIndex]_vars

====
